---- MODULE Spec2Model ----
(***************************************************************************)
(* MedFlow (med_agent): the hospital inventory HOSPITAL_STATE, the tool    *)
(* functions of customTools.py that read and change it, the clinical       *)
(* scoring function, and the agents of agent.py that call the tools.       *)
(*                                                                         *)
(* Abstractions: timestamps (datetime.now()) and free-text messages are    *)
(* left out; a message is represented by its kind.  Python's None is the   *)
(* string "None".  A bed record is [status, patient, priority]; the        *)
(* expected_discharge / reserved_at time stamps are left out.              *)
(***************************************************************************)
EXTENDS Integers, Sequences, FiniteSets, TLC

VARIABLES
    HOSPITAL_STATE,   \* customTools.py:9-40, the process-wide inventory
    call,             \* the tool call made last: its name and arguments
    result,           \* the dict that call returned
    calls,            \* number of tool calls made so far (bounded by MaxCalls)
    threads,          \* concurrent callers of a tool: position, arguments, locals
    score_args,       \* the arguments of calculate_clinical_score
    score_out,        \* the dict calculate_clinical_score returned, None before
    stage,            \* admission_workflow: the sub-agent that runs next
    input_batch,      \* the patients submitted, in submission order
    batch_triage,     \* output_key "batch_triage"
    conflict_resolution,  \* output_key "conflict_resolution"
    cursor,           \* BatchResourceOrchestrator: the allocation_order it is at
    batch_allocations,    \* output_key "batch_allocations", built patient by patient
    batch_summary     \* output_key "batch_summary"

storeVars == << call, result, calls >>
scoreVars == << score_args, score_out >>
flowVars == << stage, input_batch, batch_triage, conflict_resolution, cursor,
               batch_allocations, batch_summary >>
vars == << HOSPITAL_STATE, call, result, calls, threads, score_args, score_out,
           stage, input_batch, batch_triage, conflict_resolution, cursor,
           batch_allocations, batch_summary >>

----------------------------------------------------------------------------
(* Bounds of the model *)

MaxCalls == 3
MaxQty == 2
NumCallers == 2
MaxSymptoms == 2
MaxPatients == 2

----------------------------------------------------------------------------
(* Inputs *)

None == "None"
\* a variable that holds no dict yet
Nothing == << >>

IcuBedIds == {"ICU-1", "ICU-2", "ICU-3", "ICU-4"}
TraumaBayIds == {"TB-1", "TB-2", "TB-3"}
\* one id that is in neither dict
BedIdInputs == IcuBedIds \cup TraumaBayIds \cup {"ICU-9"}
PatientNames == {"Maria", "John"}
PriorityInputs == {"CRITICAL"}
EquipmentTypes == {"ventilators", "cardiac_monitors", "defibrillators"}
EquipmentInputs == EquipmentTypes \cup {"ecmo"}
Quantities == (0 - MaxQty) .. MaxQty
\* (staff_name, specialty): every member under its own specialty, a member under
\* another specialty, a name nobody has, and a specialty the map does not know
StaffInputs ==
    { <<"Dr. Smith", "ED_Physician">>, <<"Dr. Jones", "ED_Physician">>,
      <<"RN Johnson", "ED_Nurse">>, <<"RN Williams", "ED_Nurse">>, <<"RN Davis", "ED_Nurse">>,
      <<"Dr. Patel", "Cardiologist">>, <<"Dr. Martinez", "Trauma_Surgeon">>,
      <<"Dr. Patel", "ED_Physician">>, <<"Dr. Who", "ED_Nurse">>,
      <<"Dr. Smith", "Radiologist">> }

----------------------------------------------------------------------------
(* HOSPITAL_STATE as the module is loaded *)

InitialHospitalState ==
    [ icu_beds |->
        [ b \in IcuBedIds |->
            CASE b = "ICU-1" -> [status |-> "occupied", patient |-> "P001", priority |-> None]
              [] b = "ICU-2" -> [status |-> "occupied", patient |-> "P002", priority |-> None]
              [] OTHER -> [status |-> "available", patient |-> None, priority |-> None] ],
      ed_trauma_bays |->
        [ b \in TraumaBayIds |->
            CASE b = "TB-1" -> [status |-> "occupied", patient |-> "P003", priority |-> None]
              [] OTHER -> [status |-> "available", patient |-> None, priority |-> None] ],
      ed_treatment_rooms |-> [available |-> 5, total |-> 15, occupied |-> 10],
      staff_available |->
        [ ed_physicians |-> << [name |-> "Dr. Smith", load |-> 3],
                               [name |-> "Dr. Jones", load |-> 2] >>,
          ed_nurses |-> << [name |-> "RN Johnson", load |-> 4],
                           [name |-> "RN Williams", load |-> 3],
                           [name |-> "RN Davis", load |-> 2] >>,
          cardiologists |-> << [name |-> "Dr. Patel", available |-> TRUE] >>,
          trauma_surgeons |-> << [name |-> "Dr. Martinez", available |-> TRUE] >> ],
      equipment |->
        [ t \in EquipmentTypes |->
            CASE t = "ventilators" -> [available |-> 2, total |-> 7]
              [] t = "cardiac_monitors" -> [available |-> 8, total |-> 15]
              [] OTHER -> [available |-> 6, total |-> 8] ] ]

----------------------------------------------------------------------------
(* reserve_bed: returns the new inventory and the result dict *)

BedResult(success, bed_id, department, patient, message) ==
    [ success |-> success, bed_id |-> bed_id, department |-> department,
      patient |-> patient, message |-> message ]

\* a record that admits the patient at once
AdmittedBed(patient_name, priority) ==
    [status |-> "occupied", patient |-> patient_name, priority |-> priority]

ReservedBed(patient_name, priority) ==
    [status |-> "reserved", patient |-> patient_name, priority |-> priority]

\* reserve_in without the two status checks that refuse a bed somebody holds: any
\* bed that is not occupied is handed to the caller
reserve_in_unchecked(H, pool, department, bed_id, patient_name, priority) ==
    IF H[pool][bed_id].status # "occupied"
    THEN [ state |-> [H EXCEPT ![pool][bed_id] = ReservedBed(patient_name, priority)],
           result |-> BedResult(TRUE, bed_id, department, patient_name, "reserved") ]
    ELSE [ state |-> H,
           result |-> BedResult(FALSE, bed_id, None, None, "not_available") ]

\* a reserve_bed that tells the holder of a reservation that it succeeded again
reserve_commit_reentrant(H, pool, department, current_status, bed_id, patient_name, priority) ==
    IF current_status = "reserved" /\ H[pool][bed_id].patient = patient_name
    THEN [ state |-> H,
           result |-> BedResult(TRUE, bed_id, department, patient_name, "reserved") ]
    ELSE IF current_status = "reserved"
    THEN [ state |-> H,
           result |-> BedResult(FALSE, bed_id, None, H[pool][bed_id].patient,
                                "already_reserved") ]
    ELSE IF current_status = "available"
    THEN [ state |-> [H EXCEPT ![pool][bed_id] = ReservedBed(patient_name, priority)],
           result |-> BedResult(TRUE, bed_id, department, patient_name, "reserved") ]
    ELSE [ state |-> H,
           result |-> BedResult(FALSE, bed_id, None, None, "not_available") ]

\* lines 353-380 (ICU) and 386-413 (trauma bay): what reserve_bed does once it has
\* read current_status
reserve_commit(H, pool, department, current_status, bed_id, patient_name, priority) ==
    IF current_status = "reserved"
    THEN [ state |-> H,
           result |-> BedResult(FALSE, bed_id, None, H[pool][bed_id].patient,
                                "already_reserved") ]
    ELSE IF current_status = "available"
    THEN [ state |-> [H EXCEPT ![pool][bed_id] = ReservedBed(patient_name, priority)],
           result |-> BedResult(TRUE, bed_id, department, patient_name, "reserved") ]
    ELSE [ state |-> H,
           result |-> BedResult(FALSE, bed_id, None, None, "not_available") ]

\* lines 350 / 384, the read of the bed's status, followed by the rest
reserve_in(H, pool, department, bed_id, patient_name, priority) ==
    reserve_commit(H, pool, department, H[pool][bed_id].status,
                   bed_id, patient_name, priority)

reserve_bed(H, bed_id, patient_name, priority) ==
    IF bed_id \in DOMAIN H.icu_beds
    THEN reserve_in(H, "icu_beds", "ICU", bed_id, patient_name, priority)
    ELSE IF bed_id \in DOMAIN H.ed_trauma_bays
    THEN reserve_in(H, "ed_trauma_bays", "ED_Trauma", bed_id, patient_name, priority)
    ELSE [ state |-> H, result |-> BedResult(FALSE, bed_id, None, None, "not_found") ]

----------------------------------------------------------------------------
(* reserve_equipment *)
\* a reserve_equipment that, when the pool lacks capacity, also gives up the
\* beds the patient holds
reserve_equipment_all_or_nothing(H, equipment_type, patient_name, quantity) ==
    IF equipment_type \notin DOMAIN H.equipment
    THEN [ state |-> H,
           result |-> [success |-> FALSE, equipment_type |-> equipment_type,
                       message |-> "unknown_type"] ]
    ELSE LET available == H.equipment[equipment_type].available
             Released(pool) ==
                 [ b \in DOMAIN pool |->
                     IF pool[b].patient = patient_name
                     THEN [status |-> "available", patient |-> None, priority |-> None]
                     ELSE pool[b] ]
         IN
         IF available < quantity
         THEN [ state |-> [H EXCEPT !.icu_beds = Released(@),
                                    !.ed_trauma_bays = Released(@)],
                result |-> [success |-> FALSE, equipment_type |-> equipment_type,
                            requested |-> quantity, available |-> available,
                            message |-> "insufficient"] ]
         ELSE [ state |-> [H EXCEPT !.equipment[equipment_type].available = @ - quantity],
                result |-> [success |-> TRUE, equipment_type |-> equipment_type,
                            quantity_reserved |-> quantity, patient |-> patient_name,
                            remaining_available |-> available - quantity,
                            message |-> "reserved"] ]

\* a reserve_equipment that, when the pool lacks capacity, hands out the units
\* that are left
reserve_equipment_what_is_left(H, equipment_type, patient_name, quantity) ==
    IF equipment_type \notin DOMAIN H.equipment
    THEN [ state |-> H,
           result |-> [success |-> FALSE, equipment_type |-> equipment_type,
                       message |-> "unknown_type"] ]
    ELSE LET available == H.equipment[equipment_type].available IN
         IF available < quantity
         THEN [ state |-> [H EXCEPT !.equipment[equipment_type].available = 0],
                result |-> [success |-> FALSE, equipment_type |-> equipment_type,
                            requested |-> quantity, available |-> available,
                            message |-> "insufficient"] ]
         ELSE [ state |-> [H EXCEPT !.equipment[equipment_type].available = @ - quantity],
                result |-> [success |-> TRUE, equipment_type |-> equipment_type,
                            quantity_reserved |-> quantity, patient |-> patient_name,
                            remaining_available |-> available - quantity,
                            message |-> "reserved"] ]

reserve_equipment(H, equipment_type, patient_name, quantity) ==
    IF equipment_type \notin DOMAIN H.equipment
    THEN [ state |-> H,
           result |-> [success |-> FALSE, equipment_type |-> equipment_type,
                       message |-> "unknown_type"] ]
    ELSE LET available == H.equipment[equipment_type].available IN
         IF available < quantity
         THEN [ state |-> H,
                result |-> [success |-> FALSE, equipment_type |-> equipment_type,
                            requested |-> quantity, available |-> available,
                            message |-> "insufficient"] ]
         ELSE [ state |-> [H EXCEPT !.equipment[equipment_type].available = @ - quantity],
                result |-> [success |-> TRUE, equipment_type |-> equipment_type,
                            quantity_reserved |-> quantity, patient |-> patient_name,
                            remaining_available |-> available - quantity,
                            message |-> "reserved"] ]

----------------------------------------------------------------------------
----------------------------------------------------------------------------
(* assign_staff *)

specialty_map(specialty) ==
    CASE specialty = "ED_Physician" -> "ed_physicians"
      [] specialty = "ED_Nurse" -> "ed_nurses"
      [] specialty = "Cardiologist" -> "cardiologists"
      [] specialty = "Trauma_Surgeon" -> "trauma_surgeons"
      [] OTHER -> None

\* next(... for s in staff_list if s['name'] == staff_name, None): index of the
\* first member of that name, 0 for None
find_staff(staff_list, staff_name) ==
    LET hits == {i \in DOMAIN staff_list : staff_list[i].name = staff_name} IN
    IF hits = {} THEN 0 ELSE CHOOSE i \in hits : \A j \in hits : i <= j

assign_staff(H, staff_name, specialty, patient_name) ==
    LET key == specialty_map(specialty) IN
    IF key = None
    THEN [ state |-> H, result |-> [success |-> FALSE, message |-> "unknown_specialty"] ]
    ELSE LET staff_list == H.staff_available[key]
             i == find_staff(staff_list, staff_name) IN
         IF i = 0
         THEN [ state |-> H, result |-> [success |-> FALSE, message |-> "staff_not_found"] ]
         ELSE LET state == IF key \in {"ed_physicians", "ed_nurses"}
                           THEN [H EXCEPT !.staff_available[key][i].load = @ + 1]
                           ELSE [H EXCEPT !.staff_available[key][i].available = FALSE]
              IN [ state |-> state,
                   result |-> [success |-> TRUE, staff_name |-> staff_name,
                               specialty |-> specialty, patient |-> patient_name,
                               message |-> "assigned"] ]

----------------------------------------------------------------------------
(* The read-only tools *)

\* the keys of the two bed dicts in their (insertion) order; reserve_bed replaces
\* the value of an existing key, which keeps the order
icu_bed_order == << "ICU-1", "ICU-2", "ICU-3", "ICU-4" >>
trauma_bay_order == << "TB-1", "TB-2", "TB-3" >>

\* a listing of the available beds that leaves out the occupied beds only
BedsNotOccupied(beds, order, status) ==
    LET Test(bed_id) == IF status = "available"
                        THEN beds[bed_id].status # "occupied"
                        ELSE beds[bed_id].status = status
    IN SelectSeq(order, Test)

\* [bed_id for bed_id, data in beds.items() if data['status'] == status]
BedsWithStatus(beds, order, status) ==
    LET Test(bed_id) == beds[bed_id].status = status IN SelectSeq(order, Test)

check_bed_availability(H, department) ==
    IF department = "ICU"
    THEN LET available == BedsWithStatus(H.icu_beds, icu_bed_order, "available") IN
         [ department |-> "ICU", available_beds |-> available,
           reserved_beds |-> BedsWithStatus(H.icu_beds, icu_bed_order, "reserved"),
           count |-> Len(available), total_beds |-> Len(icu_bed_order),
           estimated_wait_minutes |-> IF available # << >> THEN 0 ELSE 45 ]
    ELSE IF department = "ED_Trauma"
    THEN LET available == BedsWithStatus(H.ed_trauma_bays, trauma_bay_order, "available") IN
         [ department |-> "ED_Trauma", available_beds |-> available,
           reserved_beds |-> BedsWithStatus(H.ed_trauma_bays, trauma_bay_order, "reserved"),
           count |-> Len(available), total_beds |-> Len(trauma_bay_order),
           estimated_wait_minutes |-> IF available # << >> THEN 0 ELSE 20 ]
    ELSE IF department = "ED_Treatment"
    THEN [ department |-> "ED_Treatment", available_beds |-> << >>,
           reserved_beds |-> << >>,
           count |-> H.ed_treatment_rooms.available,
           total_beds |-> H.ed_treatment_rooms.total,
           estimated_wait_minutes |-> IF H.ed_treatment_rooms.available > 0 THEN 0 ELSE 35 ]
    ELSE Nothing   \* no branch: the function returns None

\* sorted(staff_list, key=load): Python's sort is stable
RECURSIVE InsertByLoad(_, _)
InsertByLoad(sorted, s) ==
    IF sorted = << >> THEN << s >>
    ELSE IF Head(sorted).load <= s.load
         THEN << Head(sorted) >> \o InsertByLoad(Tail(sorted), s)
         ELSE << s >> \o sorted

RECURSIVE SortedByLoad(_)
SortedByLoad(staff_list) ==
    IF staff_list = << >> THEN << >>
    ELSE InsertByLoad(SortedByLoad(SubSeq(staff_list, 1, Len(staff_list) - 1)),
                      staff_list[Len(staff_list)])

\* a get_available_staff that lists the whole roster of a specialty, whatever
\* the availability flags say
get_available_staff_roster(H, specialty) ==
    LET key == specialty_map(specialty) IN
    IF key = None
    THEN [ error |-> "unknown_specialty", available_staff |-> << >> ]
    ELSE LET staff_list == H.staff_available[key]
             sorted_staff == IF key \in {"ed_physicians", "ed_nurses"}
                             THEN SortedByLoad(staff_list)
                             ELSE staff_list
         IN [ specialty |-> specialty, available_staff |-> sorted_staff,
              total_count |-> Len(sorted_staff),
              least_busy |-> IF sorted_staff # << >> THEN sorted_staff[1] ELSE Nothing ]

get_available_staff(H, specialty) ==
    LET key == specialty_map(specialty) IN
    IF key = None
    THEN [ error |-> "unknown_specialty", available_staff |-> << >> ]
    ELSE LET staff_list == H.staff_available[key]
             IsAvailable(m) == m.available
             sorted_staff == IF key \in {"ed_physicians", "ed_nurses"}
                             THEN SortedByLoad(staff_list)
                             ELSE SelectSeq(staff_list, IsAvailable)
         IN [ specialty |-> specialty, available_staff |-> sorted_staff,
              total_count |-> Len(sorted_staff),
              least_busy |-> IF sorted_staff # << >> THEN sorted_staff[1] ELSE Nothing ]

check_equipment(H, equipment_type) ==
    LET known == equipment_type \in DOMAIN H.equipment
        available == IF known THEN H.equipment[equipment_type].available ELSE 0
        total == IF known THEN H.equipment[equipment_type].total ELSE 0
    IN [ equipment_type |-> equipment_type, available |-> available, total |-> total,
         in_use |-> total - available,
         status |-> IF available > 0 THEN "available" ELSE "all_in_use" ]

----------------------------------------------------------------------------
(* get_hospital_state *)

\* a value of the result that is the store's own object, not a copy of it: the
\* path of the object in HOSPITAL_STATE
Alias(path) == [alias |-> path]

RECURSIVE Deref(_, _)
Deref(H, path) == IF path = << >> THEN H ELSE Deref(H[Head(path)], Tail(path))

\* [bed_id for bed_id, data in beds.items() if data['status'] in statuses]
BedsWithStatusIn(beds, order, statuses) ==
    LET Test(bed_id) == beds[bed_id].status \in statuses IN SelectSeq(order, Test)

Loads(staff_list) == { staff_list[i].load : i \in DOMAIN staff_list }

RECURSIVE SumLoads(_)
SumLoads(staff_list) ==
    IF staff_list = << >> THEN 0 ELSE Head(staff_list).load + SumLoads(Tail(staff_list))

equipment_order == << "ventilators", "cardiac_monitors", "defibrillators" >>

\* the shortage entries in the order of the equipment dict
RECURSIVE Shortages(_, _)
Shortages(equipment, types) ==
    IF types = << >> THEN << >>
    ELSE LET data == equipment[Head(types)]
             entry == IF data.available = 0
                      THEN << [equipment_type |-> Head(types), shortage |-> "none_available"] >>
                      ELSE IF (data.total - data.available) * 100 >= 80 * data.total
                      THEN << [equipment_type |-> Head(types), shortage |-> "utilized",
                               available |-> data.available, total |-> data.total] >>
                      ELSE << >>
         IN entry \o Shortages(equipment, Tail(types))

BedsPart(H) ==
    LET icu_available == BedsWithStatus(H.icu_beds, icu_bed_order, "available")
        icu_occupied == BedsWithStatusIn(H.icu_beds, icu_bed_order, {"occupied", "reserved"})
        trauma_available == BedsWithStatus(H.ed_trauma_bays, trauma_bay_order, "available")
        trauma_occupied ==
            BedsWithStatusIn(H.ed_trauma_bays, trauma_bay_order, {"occupied", "reserved"})
    IN [ icu |-> [ available |-> icu_available, available_count |-> Len(icu_available),
                   occupied |-> icu_occupied, occupied_count |-> Len(icu_occupied),
                   total |-> Len(icu_bed_order) ],
         trauma_bays |-> [ available |-> trauma_available,
                           available_count |-> Len(trauma_available),
                           occupied |-> trauma_occupied,
                           occupied_count |-> Len(trauma_occupied),
                           total |-> Len(trauma_bay_order) ],
         ed_treatment |-> Alias(<< "ed_treatment_rooms" >>) ]

StaffPart(H) ==
    LET physicians == H.staff_available.ed_physicians
        Min(S) == CHOOSE x \in S : \A y \in S : x <= y
        Most(S) == CHOOSE x \in S : \A y \in S : x >= y
    IN [ physicians |-> Alias(<< "staff_available", "ed_physicians" >>),
         nurses |-> Alias(<< "staff_available", "ed_nurses" >>),
         specialists |->
             [ cardiologists |-> Alias(<< "staff_available", "cardiologists" >>),
               trauma_surgeons |-> Alias(<< "staff_available", "trauma_surgeons" >>) ],
         physician_workload_summary |->
             [ least_busy |-> Min(Loads(physicians)),
               most_busy |-> Most(Loads(physicians)),
               \* sum / len, kept as the two numbers
               average_load |-> << SumLoads(physicians), Len(physicians) >> ] ]

\* the values of query_filter that select a part
Selects(query_filter, part) == query_filter \in {None, part, "full_state"}

get_hospital_state(H, query_filter) ==
    [ query_filter |-> IF query_filter = None THEN "full_state" ELSE query_filter ]
    @@ (IF Selects(query_filter, "beds_only") THEN [beds |-> BedsPart(H)] ELSE << >>)
    @@ (IF Selects(query_filter, "staff_only") THEN [staff |-> StaffPart(H)] ELSE << >>)
    @@ (IF Selects(query_filter, "equipment_only")
        THEN [ equipment |-> Alias(<< "equipment" >>),
               equipment_shortages |-> Shortages(H.equipment, equipment_order) ]
        ELSE << >>)

\* what a caller that holds the result r reads in it when the store is H
ReadResult(r, H) ==
    [ k \in DOMAIN r |->
        CASE k = "beds" -> [r.beds EXCEPT !.ed_treatment = Deref(H, r.beds.ed_treatment.alias)]
          [] k = "staff" ->
               [ physicians |-> Deref(H, r.staff.physicians.alias),
                 nurses |-> Deref(H, r.staff.nurses.alias),
                 specialists |->
                     [ cardiologists |-> Deref(H, r.staff.specialists.cardiologists.alias),
                       trauma_surgeons |->
                           Deref(H, r.staff.specialists.trauma_surgeons.alias) ],
                 physician_workload_summary |-> r.staff.physician_workload_summary ]
          [] k = "equipment" -> Deref(H, r.equipment.alias)
          [] OTHER -> r[k] ]

----------------------------------------------------------------------------
(* The tools each agent is given (agent.py) *)

Agents ==
    { "BatchTriageCoordinator", "ConflictResolutionCoordinator",
      "BatchResourceOrchestrator", "BatchAdmissionSummarizer", "HospitalQueryAgent" }

\* a conflict resolver that is also given reserve_bed
ToolsWithReservingResolver(agent) ==
    CASE agent = "BatchTriageCoordinator" -> {"calculate_clinical_score"}
      [] agent = "ConflictResolutionCoordinator" ->
            {"check_bed_availability", "check_equipment", "reserve_bed"}
      [] agent = "BatchResourceOrchestrator" ->
            { "check_bed_availability", "get_available_staff", "check_equipment",
              "reserve_bed", "reserve_equipment", "assign_staff" }
      [] agent = "BatchAdmissionSummarizer" -> {}
      [] agent = "HospitalQueryAgent" -> {"get_hospital_state"}
      [] OTHER -> {"detect_resource_conflicts"}

\* the tools= list of each agent; any other caller of customTools stands for the
\* functions that no agent lists
Tools(agent) ==
    CASE agent = "BatchTriageCoordinator" -> {"calculate_clinical_score"}
      [] agent = "ConflictResolutionCoordinator" ->
            {"check_bed_availability", "check_equipment"}
      [] agent = "BatchResourceOrchestrator" ->
            { "check_bed_availability", "get_available_staff", "check_equipment",
              "reserve_bed", "reserve_equipment", "assign_staff" }
      [] agent = "BatchAdmissionSummarizer" -> {}
      [] agent = "HospitalQueryAgent" -> {"get_hospital_state"}
      [] OTHER -> {"detect_resource_conflicts"}

ToolUsers == Agents \cup {"module"}

UsersOf(tool) == { agent \in ToolUsers : tool \in Tools(agent) }

----------------------------------------------------------------------------
(* detect_resource_conflicts *)

Conflict(type, severity) == [type |-> type, severity |-> severity]

CountAvailable(beds) == Cardinality({b \in DOMAIN beds : beds[b].status = "available"})

\* icu_occupancy >= percent, for icu_occupancy = (total - available) / total * 100
OccupancyAtLeast(total, available, percent) == (total - available) * 100 >= percent * total

\* a detector in which the ventilator rules do not raise a severity found by an
\* earlier rule
detect_resource_conflicts_first_found(H) ==
    LET icu_available == CountAvailable(H.icu_beds)
        icu_total == Cardinality(DOMAIN H.icu_beds)
        trauma_available == CountAvailable(H.ed_trauma_bays)
        physicians_overloaded ==
            SelectSeq(H.staff_available.ed_physicians, LAMBDA p : p.load >= 5)
        ventilators_available == H.equipment["ventilators"].available
        c1 == IF OccupancyAtLeast(icu_total, icu_available, 90)
              THEN << Conflict("ICU_CAPACITY", "CRITICAL") >>
              ELSE IF OccupancyAtLeast(icu_total, icu_available, 75)
              THEN << Conflict("ICU_CAPACITY", "HIGH") >>
              ELSE << >>
        s1 == IF c1 = << >> THEN "NONE" ELSE c1[1].severity
        c2 == IF trauma_available = 0
              THEN << Conflict("TRAUMA_BAY_SHORTAGE", "HIGH") >> ELSE << >>
        s2 == IF c2 # << >> /\ s1 \notin {"CRITICAL", "HIGH"} THEN "HIGH" ELSE s1
        c3 == IF physicians_overloaded # << >>
              THEN << Conflict("PHYSICIAN_OVERLOAD", "MODERATE") >> ELSE << >>
        s3 == IF c3 # << >> /\ s2 = "NONE" THEN "MODERATE" ELSE s2
        c4 == IF ventilators_available = 0
              THEN << Conflict("VENTILATOR_SHORTAGE", "CRITICAL") >>
              ELSE IF ventilators_available <= 1
              THEN << Conflict("VENTILATOR_LIMITED", "HIGH") >>
              ELSE << >>
        s4 == IF c4 = << >> \/ s3 # "NONE" THEN s3 ELSE c4[1].severity
        conflicts == c1 \o c2 \o c3 \o c4
    IN [ conflicts_detected |-> Len(conflicts) > 0,
         conflict_count |-> Len(conflicts),
         severity |-> s4,
         conflicts |-> conflicts,
         requires_intervention |-> s4 \in {"CRITICAL", "HIGH"} ]

\* c1..c4 are what the four checks append to conflicts, s1..s4 the value of
\* conflict_severity after each of them
detect_resource_conflicts(H) ==
    LET icu_available == CountAvailable(H.icu_beds)
        icu_total == Cardinality(DOMAIN H.icu_beds)
        trauma_available == CountAvailable(H.ed_trauma_bays)
        physicians_overloaded ==
            SelectSeq(H.staff_available.ed_physicians, LAMBDA p : p.load >= 5)
        ventilators_available == H.equipment["ventilators"].available
        c1 == IF OccupancyAtLeast(icu_total, icu_available, 90)
              THEN << Conflict("ICU_CAPACITY", "CRITICAL") >>
              ELSE IF OccupancyAtLeast(icu_total, icu_available, 75)
              THEN << Conflict("ICU_CAPACITY", "HIGH") >>
              ELSE << >>
        s1 == IF c1 = << >> THEN "NONE" ELSE c1[1].severity
        c2 == IF trauma_available = 0
              THEN << Conflict("TRAUMA_BAY_SHORTAGE", "HIGH") >> ELSE << >>
        s2 == IF c2 # << >> /\ s1 \notin {"CRITICAL", "HIGH"} THEN "HIGH" ELSE s1
        c3 == IF physicians_overloaded # << >>
              THEN << Conflict("PHYSICIAN_OVERLOAD", "MODERATE") >> ELSE << >>
        s3 == IF c3 # << >> /\ s2 = "NONE" THEN "MODERATE" ELSE s2
        c4 == IF ventilators_available = 0
              THEN << Conflict("VENTILATOR_SHORTAGE", "CRITICAL") >>
              ELSE IF ventilators_available <= 1
              THEN << Conflict("VENTILATOR_LIMITED", "HIGH") >>
              ELSE << >>
        s4 == IF c4 = << >> THEN s3
              ELSE IF c4[1].severity = "CRITICAL" THEN "CRITICAL"
              ELSE IF s3 # "CRITICAL" THEN "HIGH" ELSE s3
        conflicts == c1 \o c2 \o c3 \o c4
    IN [ conflicts_detected |-> Len(conflicts) > 0,
         conflict_count |-> Len(conflicts),
         severity |-> s4,
         conflicts |-> conflicts,
         requires_intervention |-> s4 \in {"CRITICAL", "HIGH"} ]

----------------------------------------------------------------------------
(* The workflow is not running *)

NoFlow ==
    /\ stage = "idle"
    /\ input_batch = << >>
    /\ batch_triage = Nothing
    /\ conflict_resolution = Nothing
    /\ cursor = 0
    /\ batch_allocations = Nothing
    /\ batch_summary = Nothing

----------------------------------------------------------------------------
(* The store driven by any sequence of tool calls *)

Init ==
    /\ HOSPITAL_STATE = InitialHospitalState
    /\ call = [op |-> "none"]
    /\ result = [success |-> FALSE, message |-> "none"]
    /\ calls = 0
    /\ threads = << >>
    /\ score_args = Nothing
    /\ score_out = Nothing
    /\ NoFlow

Apply(c, r) ==
    /\ calls < MaxCalls
    /\ calls' = calls + 1
    /\ call' = c
    /\ HOSPITAL_STATE' = r.state
    /\ result' = r.result
    /\ UNCHANGED << threads, scoreVars, flowVars >>

ReserveBed ==
    \E agent \in UsersOf("reserve_bed"), bed_id \in BedIdInputs,
       patient_name \in PatientNames, priority \in PriorityInputs :
        Apply([op |-> "reserve_bed", agent |-> agent, bed_id |-> bed_id,
               patient_name |-> patient_name, priority |-> priority],
              reserve_bed(HOSPITAL_STATE, bed_id, patient_name, priority))

ReserveEquipment ==
    \E agent \in UsersOf("reserve_equipment"), equipment_type \in EquipmentInputs,
       patient_name \in PatientNames, quantity \in Quantities :
        Apply([op |-> "reserve_equipment", agent |-> agent,
               equipment_type |-> equipment_type,
               patient_name |-> patient_name, quantity |-> quantity],
              reserve_equipment(HOSPITAL_STATE, equipment_type, patient_name, quantity))

AssignStaff ==
    \E agent \in UsersOf("assign_staff"), s \in StaffInputs, patient_name \in PatientNames :
        Apply([op |-> "assign_staff", agent |-> agent, staff_name |-> s[1],
               specialty |-> s[2], patient_name |-> patient_name],
              assign_staff(HOSPITAL_STATE, s[1], s[2], patient_name))

\* a tool that returns without writing to HOSPITAL_STATE
Query(c, r) ==
    /\ calls < MaxCalls
    /\ calls' = calls + 1
    /\ call' = c
    /\ result' = r
    /\ UNCHANGED << HOSPITAL_STATE, threads, scoreVars, flowVars >>

DepartmentInputs == {"ICU", "ED_Trauma", "ED_Treatment", "Ward"}
SpecialtyInputs == {"ED_Physician", "ED_Nurse", "Cardiologist", "Trauma_Surgeon", "Surgeon"}
FilterInputs == {None, "beds_only", "staff_only", "equipment_only", "full_state", "all"}

CheckBedAvailability ==
    \E agent \in UsersOf("check_bed_availability"), department \in DepartmentInputs :
        Query([op |-> "check_bed_availability", agent |-> agent, department |-> department],
              check_bed_availability(HOSPITAL_STATE, department))

GetAvailableStaff ==
    \E agent \in UsersOf("get_available_staff"), specialty \in SpecialtyInputs :
        Query([op |-> "get_available_staff", agent |-> agent, specialty |-> specialty],
              get_available_staff(HOSPITAL_STATE, specialty))

CheckEquipment ==
    \E agent \in UsersOf("check_equipment"), equipment_type \in EquipmentInputs :
        Query([op |-> "check_equipment", agent |-> agent,
               equipment_type |-> equipment_type],
              check_equipment(HOSPITAL_STATE, equipment_type))

GetHospitalState ==
    \E agent \in UsersOf("get_hospital_state"), query_filter \in FilterInputs :
        Query([op |-> "get_hospital_state", agent |-> agent,
               query_filter |-> query_filter],
              get_hospital_state(HOSPITAL_STATE, query_filter))

DetectResourceConflicts ==
    \E agent \in UsersOf("detect_resource_conflicts") :
        Query([op |-> "detect_resource_conflicts", agent |-> agent],
              detect_resource_conflicts(HOSPITAL_STATE))

Next ==
    \/ ReserveBed \/ ReserveEquipment \/ AssignStaff
    \/ CheckBedAvailability \/ GetAvailableStaff \/ CheckEquipment
    \/ GetHospitalState \/ DetectResourceConflicts

Spec == Init /\ [][Next]_vars

----------------------------------------------------------------------------
(* A caller keeps the result of get_hospital_state while the store is       *)
(* written: call and result stay those of the query, and call.store records *)
(* the inventory the result was returned from.                              *)

Held == call.op = "get_hospital_state"

TakeSnapshot ==
    /\ ~Held
    /\ calls < MaxCalls
    /\ calls' = calls + 1
    /\ \E query_filter \in FilterInputs :
         /\ call' = [ op |-> "get_hospital_state", agent |-> "HospitalQueryAgent",
                      query_filter |-> query_filter, store |-> HOSPITAL_STATE ]
         /\ result' = get_hospital_state(HOSPITAL_STATE, query_filter)
    /\ UNCHANGED << HOSPITAL_STATE, threads, scoreVars, flowVars >>

Write(r) ==
    /\ calls < MaxCalls
    /\ calls' = calls + 1
    /\ HOSPITAL_STATE' = r.state
    /\ UNCHANGED << call, result, threads, scoreVars, flowVars >>

WriteBed ==
    \E bed_id \in BedIdInputs, patient_name \in PatientNames, priority \in PriorityInputs :
        Write(reserve_bed(HOSPITAL_STATE, bed_id, patient_name, priority))

WriteEquipment ==
    \E equipment_type \in EquipmentInputs, patient_name \in PatientNames,
       quantity \in Quantities :
        Write(reserve_equipment(HOSPITAL_STATE, equipment_type, patient_name, quantity))

WriteStaff ==
    \E s \in StaffInputs, patient_name \in PatientNames :
        Write(assign_staff(HOSPITAL_STATE, s[1], s[2], patient_name))

NextHeld == TakeSnapshot \/ WriteBed \/ WriteEquipment \/ WriteStaff

SpecHeld == Init /\ [][NextHeld]_vars

----------------------------------------------------------------------------
(* Concurrent callers.  The tools are plain functions over the module-level  *)
(* dict and take no lock, so a caller running on another thread can be      *)
(* scheduled between two statements of reserve_bed.  A caller's steps:      *)
(* the call, the read of the bed's status (lines 349-350 / 383-384), and    *)
(* the branch with its write and return (lines 353-380 / 386-413).          *)

Callers == 1 .. NumCallers

IdleThread ==
    [ pc |-> "idle", bed_id |-> None, patient_name |-> None, priority |-> None,
      pool |-> None, current_status |-> None, result |-> None ]

InitConc ==
    /\ HOSPITAL_STATE = InitialHospitalState
    /\ call = [op |-> "none"]
    /\ result = [success |-> FALSE, message |-> "none"]
    /\ calls = 0
    /\ threads = [c \in Callers |-> IdleThread]
    /\ score_args = Nothing
    /\ score_out = Nothing
    /\ NoFlow

\* caller c enters reserve_bed(bed_id, patient_name, priority)
ThreadCall(c) ==
    /\ threads[c].pc = "idle"
    /\ \E bed_id \in BedIdInputs, patient_name \in PatientNames, priority \in PriorityInputs :
         threads' = [threads EXCEPT ![c].pc = "entered", ![c].bed_id = bed_id,
                                    ![c].patient_name = patient_name,
                                    ![c].priority = priority]
    /\ UNCHANGED << HOSPITAL_STATE, storeVars, scoreVars, flowVars >>

\* lines 349-350 / 383-384: find the bed's dict and read its status; line 415 when
\* the id is in neither dict
ThreadReadStatus(c) ==
    /\ threads[c].pc = "entered"
    /\ LET bed_id == threads[c].bed_id
           pool == IF bed_id \in DOMAIN HOSPITAL_STATE.icu_beds THEN "icu_beds"
                   ELSE IF bed_id \in DOMAIN HOSPITAL_STATE.ed_trauma_bays
                   THEN "ed_trauma_bays" ELSE None
       IN IF pool = None
          THEN threads' = [threads EXCEPT ![c].pc = "returned",
                              ![c].result = BedResult(FALSE, bed_id, None, None, "not_found")]
          ELSE threads' = [threads EXCEPT ![c].pc = "read", ![c].pool = pool,
                              ![c].current_status = HOSPITAL_STATE[pool][bed_id].status]
    /\ UNCHANGED << HOSPITAL_STATE, storeVars, scoreVars, flowVars >>

\* lines 353-380 / 386-413: branch on the status read before, write, return
ThreadCommit(c) ==
    /\ threads[c].pc = "read"
    /\ LET t == threads[c]
           r == reserve_commit(HOSPITAL_STATE, t.pool,
                               IF t.pool = "icu_beds" THEN "ICU" ELSE "ED_Trauma",
                               t.current_status, t.bed_id, t.patient_name, t.priority)
       IN /\ HOSPITAL_STATE' = r.state
          /\ threads' = [threads EXCEPT ![c].pc = "returned", ![c].result = r.result]
    /\ UNCHANGED << storeVars, scoreVars, flowVars >>

NextConc ==
    \E c \in Callers : ThreadCall(c) \/ ThreadReadStatus(c) \/ ThreadCommit(c)

SpecConc == InitConc /\ [][NextConc]_vars

----------------------------------------------------------------------------
(* reserve_equipment entered by several callers at once.  The function      *)
(* takes no lock, so its statements interleave: the read of line 443, the   *)
(* guard of line 445, and the read and the write that make up the           *)
(* augmented assignment of line 455.                                        *)

IdleEquipmentThread ==
    [ pc |-> "idle", equipment_type |-> None, patient_name |-> None, quantity |-> 0,
      available |-> 0, loaded |-> 0, result |-> None ]

InitConcEquipment ==
    /\ HOSPITAL_STATE = InitialHospitalState
    /\ call = [op |-> "none"]
    /\ result = [success |-> FALSE, message |-> "none"]
    /\ calls = 0
    /\ threads = [c \in Callers |-> IdleEquipmentThread]
    /\ score_args = Nothing
    /\ score_out = Nothing
    /\ NoFlow

\* caller c enters reserve_equipment(equipment_type, patient_name, quantity) with
\* a quantity of at least one
ThreadEnterEquipment(c) ==
    /\ threads[c].pc = "idle"
    /\ \E equipment_type \in EquipmentInputs, patient_name \in PatientNames,
          quantity \in 1 .. MaxQty :
         threads' = [threads EXCEPT ![c].pc = "entered",
                                    ![c].equipment_type = equipment_type,
                                    ![c].patient_name = patient_name,
                                    ![c].quantity = quantity]
    /\ UNCHANGED << HOSPITAL_STATE, storeVars, scoreVars, flowVars >>

\* lines 436-443: return for an unknown type, else read the pool's available
ThreadReadAvailable(c) ==
    /\ threads[c].pc = "entered"
    /\ LET t == threads[c] IN
       IF t.equipment_type \notin DOMAIN HOSPITAL_STATE.equipment
       THEN threads' = [threads EXCEPT ![c].pc = "returned",
                           ![c].result = [success |-> FALSE,
                                          equipment_type |-> t.equipment_type,
                                          message |-> "unknown_type"]]
       ELSE threads' = [threads EXCEPT ![c].pc = "read",
                           ![c].available = HOSPITAL_STATE.equipment[t.equipment_type].available]
    /\ UNCHANGED << HOSPITAL_STATE, storeVars, scoreVars, flowVars >>

\* lines 445-452: the guard, on the value read before
ThreadCheckAvailable(c) ==
    /\ threads[c].pc = "read"
    /\ LET t == threads[c] IN
       IF t.available < t.quantity
       THEN threads' = [threads EXCEPT ![c].pc = "returned",
                           ![c].result = [success |-> FALSE,
                                          equipment_type |-> t.equipment_type,
                                          requested |-> t.quantity,
                                          available |-> t.available,
                                          message |-> "insufficient"]]
       ELSE threads' = [threads EXCEPT ![c].pc = "checked"]
    /\ UNCHANGED << HOSPITAL_STATE, storeVars, scoreVars, flowVars >>

\* line 455, first half: load the pool's available
ThreadLoadAvailable(c) ==
    /\ threads[c].pc = "checked"
    /\ threads' = [threads EXCEPT ![c].pc = "loaded",
                       ![c].loaded = HOSPITAL_STATE.equipment[threads[c].equipment_type].available]
    /\ UNCHANGED << HOSPITAL_STATE, storeVars, scoreVars, flowVars >>

\* line 455, second half: store the loaded value less the quantity; lines
\* 457-464: return success
ThreadStoreAvailable(c) ==
    /\ threads[c].pc = "loaded"
    /\ LET t == threads[c] IN
       /\ HOSPITAL_STATE' = [HOSPITAL_STATE EXCEPT
                                !.equipment[t.equipment_type].available = t.loaded - t.quantity]
       /\ threads' = [threads EXCEPT ![c].pc = "returned",
                          ![c].result = [success |-> TRUE,
                                         equipment_type |-> t.equipment_type,
                                         quantity_reserved |-> t.quantity,
                                         patient |-> t.patient_name,
                                         remaining_available |-> t.loaded - t.quantity,
                                         message |-> "reserved"]]
    /\ UNCHANGED << storeVars, scoreVars, flowVars >>

NextConcEquipment ==
    \E c \in Callers :
        \/ ThreadEnterEquipment(c)
        \/ ThreadReadAvailable(c)
        \/ ThreadCheckAvailable(c)
        \/ ThreadLoadAvailable(c)
        \/ ThreadStoreAvailable(c)

SpecConcEquipment == InitConcEquipment /\ [][NextConcEquipment]_vars

----------------------------------------------------------------------------
(* calculate_clinical_score.  vital_signs is a dict that may lack any of    *)
(* its keys; the values are integers.  A symptom string is represented by the *)
(* set of critical keywords that occur in its lower-cased text, which is    *)
(* all the function reads of it.  risk_factors and calculation_time are     *)
(* left out.                                                                *)

\* dict.get(key, default)
Get(d, key, default) == IF key \in DOMAIN d THEN d[key] ELSE default

\* critical_keywords in the dict's (insertion) order
critical_keywords ==
    << [keyword |-> "chest pain", points |-> 3],
       [keyword |-> "unresponsive", points |-> 4],
       [keyword |-> "stroke", points |-> 4],
       [keyword |-> "seizure", points |-> 3],
       [keyword |-> "severe bleeding", points |-> 3],
       [keyword |-> "head trauma", points |-> 3],
       [keyword |-> "difficulty breathing", points |-> 2],
       [keyword |-> "altered mental", points |-> 2] >>

\* a mistaken age band: the elderly band scores 1
age_points_low(age) ==
    IF age > 75 THEN 3 ELSE IF age > 65 THEN 1 ELSE IF age < 1 THEN 2 ELSE 0

age_points(age) ==
    IF age > 75 THEN 3 ELSE IF age > 65 THEN 2 ELSE IF age < 1 THEN 2 ELSE 0

heart_rate_points(hr) ==
    IF hr > 130 \/ hr < 50 THEN 3 ELSE IF hr > 110 \/ hr < 60 THEN 2 ELSE 0

blood_pressure_points(bp_sys) ==
    IF bp_sys < 90 THEN 4 ELSE IF bp_sys > 180 THEN 2 ELSE 0

\* mistaken oxygen bands: the two lower bands exchanged
oxygen_points_swapped(o2_sat) ==
    IF o2_sat < 88 THEN 5 ELSE IF o2_sat < 92 THEN 1 ELSE IF o2_sat < 95 THEN 3 ELSE 0

oxygen_points(o2_sat) ==
    IF o2_sat < 88 THEN 5 ELSE IF o2_sat < 92 THEN 3 ELSE IF o2_sat < 95 THEN 1 ELSE 0

\* the inner loop with its break: the first keyword of the table found in the symptom
symptom_points(symptom) ==
    LET hits == {i \in DOMAIN critical_keywords : critical_keywords[i].keyword \in symptom} IN
    IF hits = {} THEN 0
    ELSE critical_keywords[CHOOSE i \in hits : \A j \in hits : i <= j].points

RECURSIVE symptoms_points(_)
symptoms_points(symptoms) ==
    IF symptoms = << >> THEN 0
    ELSE symptom_points(Head(symptoms)) + symptoms_points(Tail(symptoms))

Max(a, b) == IF a >= b THEN a ELSE b

\* a mistaken floor: the HIGH tier never below 90
severity_of_high_floor(score) ==
    IF score >= 12 THEN [severity |-> "CRITICAL", survival_prob |-> Max(40, 95 - score * 4)]
    ELSE IF score >= 8 THEN [severity |-> "HIGH", survival_prob |-> Max(90, 100 - score * 3)]
    ELSE IF score >= 5 THEN [severity |-> "MODERATE", survival_prob |-> Max(80, 100 - score * 2)]
    ELSE [severity |-> "LOW", survival_prob |-> 95]

\* a mistaken threshold: CRITICAL only above 12
severity_of_strict(score) ==
    IF score > 12 THEN [severity |-> "CRITICAL", survival_prob |-> Max(40, 95 - score * 4)]
    ELSE IF score >= 8 THEN [severity |-> "HIGH", survival_prob |-> Max(60, 100 - score * 3)]
    ELSE IF score >= 5 THEN [severity |-> "MODERATE", survival_prob |-> Max(80, 100 - score * 2)]
    ELSE [severity |-> "LOW", survival_prob |-> 95]

severity_of(score) ==
    IF score >= 12 THEN [severity |-> "CRITICAL", survival_prob |-> Max(40, 95 - score * 4)]
    ELSE IF score >= 8 THEN [severity |-> "HIGH", survival_prob |-> Max(60, 100 - score * 3)]
    ELSE IF score >= 5 THEN [severity |-> "MODERATE", survival_prob |-> Max(80, 100 - score * 2)]
    ELSE [severity |-> "LOW", survival_prob |-> 95]

calculate_clinical_score(age, vital_signs, symptoms) ==
    LET hr == Get(vital_signs, "heart_rate", 80)
        bp_sys == Get(vital_signs, "bp_systolic", 120)
        o2_sat == Get(vital_signs, "oxygen_saturation", 98)
        score == age_points(age) + heart_rate_points(hr) + blood_pressure_points(bp_sys)
                 + oxygen_points(o2_sat) + symptoms_points(symptoms)
        s == severity_of(score)
    IN [ clinical_score |-> score, severity |-> s.severity,
         survival_probability |-> s.survival_prob ]

(* Inputs of the scoring function: the values on both sides of every band *)
AgeInputs == {0, 1, 30, 65, 66, 75, 76, 80}
VitalKeys == {"heart_rate", "bp_systolic", "oxygen_saturation"}
OxygenInputs == {85, 87, 88, 91, 92, 94, 95, 97}
VitalValues ==
    [ k \in VitalKeys |->
        CASE k = "heart_rate" -> {45, 55, 120, 140}
          [] k = "bp_systolic" -> {85, 190}
          [] OTHER -> OxygenInputs ]
\* every dict over a subset of the keys
VitalSignsInputs ==
    UNION { { v \in [K -> UNION {VitalValues[k] : k \in K}] :
                \A k \in K : v[k] \in VitalValues[k] } : K \in SUBSET VitalKeys }
SymptomInputs ==
    { {}, {"unresponsive"}, {"chest pain"}, {"difficulty breathing"},
      {"chest pain", "stroke"} }

RECURSIVE SeqsUpTo(_, _)
SeqsUpTo(S, n) ==
    IF n = 0 THEN { << >> }
    ELSE LET shorter == SeqsUpTo(S, n - 1) IN
         shorter \cup { Append(q, x) : q \in shorter, x \in S }

ScoreInputs ==
    [ age : AgeInputs,
      vital_signs : VitalSignsInputs,
      symptoms : SeqsUpTo(SymptomInputs, MaxSymptoms) ]

InitScore ==
    /\ HOSPITAL_STATE = InitialHospitalState
    /\ call = [op |-> "none"]
    /\ result = [success |-> FALSE, message |-> "none"]
    /\ calls = 0
    /\ threads = << >>
    /\ score_args \in ScoreInputs
    /\ score_out = Nothing
    /\ NoFlow

CalculateClinicalScore ==
    /\ score_out = Nothing
    /\ score_out' = calculate_clinical_score(score_args.age, score_args.vital_signs,
                                             score_args.symptoms)
    /\ UNCHANGED << HOSPITAL_STATE, storeVars, threads, score_args, flowVars >>

NextScore == CalculateClinicalScore

SpecScore == InitScore /\ [][NextScore]_vars

----------------------------------------------------------------------------
(* admission_workflow: the four LLM agents of agent.py run in sequence.    *)
(* Each agent is modelled by the workflow its instruction prescribes; what *)
(* the instruction leaves open is a nondeterministic choice.  The parts of *)
(* a TriageDecision that are the triage agent's own judgement (priority    *)
(* level, department, specialists, maximal wait) come with the patient as  *)
(* "judgement".                                                            *)

Range(q) == {q[i] : i \in DOMAIN q}

PatientInputs ==
    { [ name |-> "Maria", age |-> 80,
        vital_signs |-> [oxygen_saturation |-> 85], symptoms |-> << {"unresponsive"} >>,
        judgement |-> [ priority_level |-> "CRITICAL", recommended_department |-> "ICU",
                        required_specialists |-> << >>, max_wait_time_minutes |-> 10 ] ],
      [ name |-> "John", age |-> 30,
        vital_signs |-> [oxygen_saturation |-> 97], symptoms |-> << {} >>,
        judgement |-> [ priority_level |-> "STANDARD", recommended_department |-> "ICU",
                        required_specialists |-> << >>, max_wait_time_minutes |-> 60 ] ],
      [ name |-> "Ana", age |-> 80,
        vital_signs |-> [oxygen_saturation |-> 85], symptoms |-> << {"stroke"} >>,
        judgement |-> [ priority_level |-> "CRITICAL", recommended_department |-> "ICU",
                        required_specialists |-> << >>, max_wait_time_minutes |-> 10 ] ],
      [ name |-> "Li", age |-> 70,
        vital_signs |-> [oxygen_saturation |-> 85],
        symptoms |-> << {"unresponsive"}, {"difficulty breathing"} >>,
        judgement |-> [ priority_level |-> "CRITICAL", recommended_department |-> "ICU",
                        required_specialists |-> << >>, max_wait_time_minutes |-> 10 ] ],
      [ name |-> "Omar", age |-> 80,
        vital_signs |-> [oxygen_saturation |-> 85], symptoms |-> << {"stroke"} >>,
        judgement |-> [ priority_level |-> "CRITICAL", recommended_department |-> "ED_Trauma",
                        required_specialists |-> << "Trauma_Surgeon" >>,
                        max_wait_time_minutes |-> 30 ] ],
      [ name |-> "Eve", age |-> 30,
        vital_signs |-> [oxygen_saturation |-> 85], symptoms |-> << {"chest pain"} >>,
        judgement |-> [ priority_level |-> "EMERGENCY", recommended_department |-> "ED_Trauma",
                        required_specialists |-> << "Cardiologist" >>,
                        max_wait_time_minutes |-> 15 ] ] }

\* the batches submitted: 1..MaxPatients patients, no patient twice
BatchInputs ==
    { b \in SeqsUpTo(PatientInputs, MaxPatients) :
        /\ b # << >>
        /\ \A i, j \in DOMAIN b : i # j => b[i] # b[j] }

\* the beds reserved by earlier admissions when the batch arrives, in the order
\* reserved
EarlierReservations ==
    { << >>, << "ICU-4" >>, << "ICU-3", "ICU-4" >>, << "ICU-4", "TB-2", "TB-3" >>,
      << "ICU-3", "ICU-4", "TB-2", "TB-3" >> }

RECURSIVE AfterReservations(_, _)
AfterReservations(H, beds) ==
    IF beds = << >> THEN H
    ELSE AfterReservations(reserve_bed(H, Head(beds), "P004", "URGENT").state, Tail(beds))

\* the inventories a batch can find on arrival: beds held by earlier
\* admissions, and in one of them a ventilator as well
ArrivalInventories ==
    { AfterReservations(InitialHospitalState, beds) : beds \in EarlierReservations }
    \cup { reserve_equipment(AfterReservations(InitialHospitalState, << "ICU-4" >>),
                             "ventilators", "P004", 1).state }

(* Agent 1, BatchTriageCoordinator *)

TriageDecision(p) ==
    LET r == calculate_clinical_score(p.age, p.vital_signs, p.symptoms) IN
    [ patient_name |-> p.name,
      priority_level |-> p.judgement.priority_level,
      clinical_score |-> r.clinical_score,
      survival_probability |-> r.survival_probability,
      recommended_department |-> p.judgement.recommended_department,
      required_specialists |-> p.judgement.required_specialists,
      max_wait_time_minutes |-> p.judgement.max_wait_time_minutes ]

CountLevel(patients, level) ==
    Cardinality({i \in DOMAIN patients : patients[i].priority_level = level})

batch_triage_agent(batch) ==
    LET patients == [i \in DOMAIN batch |-> TriageDecision(batch[i])] IN
    [ patients |-> patients,
      total_patients |-> Len(patients),
      critical_count |-> CountLevel(patients, "CRITICAL"),
      emergency_count |-> CountLevel(patients, "EMERGENCY") ]

(* Agent 2, ConflictResolutionCoordinator *)

\* how critical a priority level is
Criticality(level) ==
    CASE level = "CRITICAL" -> 5
      [] level = "EMERGENCY" -> 4
      [] level = "URGENT" -> 3
      [] level = "STANDARD" -> 2
      [] OTHER -> 1

\* the principles read backwards: whoever has to wait comes first
MustPrecedeReversed(a, b) ==
    \/ Criticality(b.priority_level) > Criticality(a.priority_level)
    \/ /\ a.priority_level = b.priority_level
       /\ b.survival_probability > a.survival_probability
    \/ /\ a.priority_level = b.priority_level
       /\ a.survival_probability = b.survival_probability
       /\ b.max_wait_time_minutes < a.max_wait_time_minutes

\* instruction step 2: "Highest priority: Most critical + highest survival
\* probability.  Tie-breaker: If equal scores, consider max_wait_time (who can
\* wait least)".  a has to be ranked before b.
MustPrecede(a, b) ==
    \/ Criticality(a.priority_level) > Criticality(b.priority_level)
    \/ /\ a.priority_level = b.priority_level
       /\ a.survival_probability > b.survival_probability
    \/ /\ a.priority_level = b.priority_level
       /\ a.survival_probability = b.survival_probability
       /\ a.max_wait_time_minutes < b.max_wait_time_minutes

\* the orders in which n patients can be listed
Orderings(n) ==
    { q \in [1 .. n -> 1 .. n] : \A i, j \in 1 .. n : i # j => q[i] # q[j] }

ResourcePriority(t, k) ==
    [ patient_name |-> t.patient_name, allocation_order |-> k,
      priority_level |-> t.priority_level, clinical_score |-> t.clinical_score ]

\* conflict_type: 'none' or the name of a conflict found in step 1
ConflictTypes == {"none", "ICU_bed_shortage"}

\* the output that lists the patients in the order q
Resolution(triage, q, conflict_type) ==
    [ total_patients |-> triage.total_patients,
      allocation_order |->
          [k \in DOMAIN q |-> ResourcePriority(triage.patients[q[k]], k)],
      conflict_type |-> conflict_type ]

\* no patient is listed after one it has to precede
RespectsPrinciples(patients, q) ==
    \A i, j \in DOMAIN q : i < j => ~MustPrecede(patients[q[j]], patients[q[i]])

\* step 2 applies "only if conflicts exist"; step 3 ranks in any case
Rankings(triage, conflict_type) ==
    { q \in Orderings(Len(triage.patients)) :
        conflict_type # "none" => RespectsPrinciples(triage.patients, q) }

\* a resolver that ranks a single patient like any other batch
conflict_resolver_no_shortcut(triage) ==
    UNION { { Resolution(triage, q, ct) : q \in Rankings(triage, ct) } :
            ct \in ConflictTypes }

\* every output the instruction allows for the triage results given
conflict_resolver(triage) ==
    IF triage.total_patients = 1
    THEN { Resolution(triage, << 1 >>, "none") }
    ELSE UNION { { Resolution(triage, q, ct) : q \in Rankings(triage, ct) } :
                 ct \in ConflictTypes }

(* Agent 3, BatchResourceOrchestrator: one patient of the allocation order *)

Departments == {"ICU", "ED_Trauma", "ED_Treatment"}

HasCapacity(H, department) == check_bed_availability(H, department).count > 0

NoBed(H) == [state |-> H, bed_assigned |-> None, bed_department |-> None]

\* step 3: reserve one of the beds the department lists (a treatment room has no
\* bed id and no reservation tool)
\* a step 3 that takes a treatment room out of the pool when a patient is
\* routed to ED_Treatment
TakeBedCountingRooms(H, t, department) ==
    IF department = "ED_Treatment"
    THEN { [state |-> [H EXCEPT !.ed_treatment_rooms.available = @ - 1,
                                !.ed_treatment_rooms.occupied = @ + 1],
            bed_assigned |-> "treatment_room", bed_department |-> department] }
    ELSE { LET r == reserve_bed(H, bed_id, t.patient_name, t.priority_level) IN
           IF r.result.success
           THEN [ state |-> r.state, bed_assigned |-> bed_id,
                  bed_department |-> r.result.department ]
           ELSE NoBed(H) :
           bed_id \in Range(check_bed_availability(H, department).available_beds) }

TakeBed(H, t, department) ==
    IF department = "ED_Treatment"
    THEN { [state |-> H, bed_assigned |-> "treatment_room", bed_department |-> department] }
    ELSE { LET r == reserve_bed(H, bed_id, t.patient_name, t.priority_level) IN
           IF r.result.success
           THEN [ state |-> r.state, bed_assigned |-> bed_id,
                  bed_department |-> r.result.department ]
           ELSE NoBed(H) :
           bed_id \in Range(check_bed_availability(H, department).available_beds) }

\* steps 2-4: the recommended department, or else an alternative department
BedStep(H, t) ==
    IF HasCapacity(H, t.recommended_department)
    THEN TakeBed(H, t, t.recommended_department)
    ELSE UNION { IF HasCapacity(H, alternative)
                 THEN TakeBed(H, t, alternative)
                 ELSE { NoBed(H) } :
                 alternative \in Departments \ {t.recommended_department} }

\* steps 5 and 9: per specialty, the least busy member if there is one
RECURSIVE StaffStep(_, _, _)
StaffStep(H, specialties, patient_name) ==
    IF specialties = << >> THEN [state |-> H, staff_assigned |-> << >>]
    ELSE LET specialty == Head(specialties)
             least_busy == get_available_staff(H, specialty).least_busy
             a == IF least_busy = Nothing
                  THEN [state |-> H, result |-> [success |-> FALSE]]
                  ELSE assign_staff(H, least_busy.name, specialty, patient_name)
             rest == StaffStep(a.state, Tail(specialties), patient_name)
         IN [ state |-> rest.state,
              staff_assigned |->
                  (IF a.result.success
                   THEN << [name |-> least_busy.name, specialty |-> specialty] >>
                   ELSE << >>) \o rest.staff_assigned ]

\* the equipment the orchestrator decides a patient needs, one unit of each
EquipmentNeeds == { << >>, << "ventilators" >> }

\* step 6
RECURSIVE EquipmentStep(_, _, _)
EquipmentStep(H, needs, patient_name) ==
    IF needs = << >> THEN [state |-> H, equipment_allocated |-> << >>, missing |-> {}]
    ELSE LET r == reserve_equipment(H, Head(needs), patient_name, 1)
             rest == EquipmentStep(r.state, Tail(needs), patient_name)
         IN [ state |-> rest.state,
              equipment_allocated |->
                  (IF r.result.success THEN << Head(needs) >> ELSE << >>)
                      \o rest.equipment_allocated,
              missing |-> (IF r.result.success THEN {} ELSE {Head(needs)})
                              \cup rest.missing ]

\* step 1: the triage decision of the patient of that name
PatientDetails(triage, patient_name) ==
    triage.patients[CHOOSE i \in DOMAIN triage.patients :
                        /\ triage.patients[i].patient_name = patient_name
                        /\ \A j \in DOMAIN triage.patients :
                              triage.patients[j].patient_name = patient_name => i <= j]

\* an orchestrator that walks the patients in the order they were submitted
CurrentPatientAsSubmitted(resolution, triage, k) ==
    CHOOSE e \in Range(resolution.allocation_order) :
        e.patient_name = triage.patients[k].patient_name

\* "PROCESS PATIENTS IN ALLOCATION ORDER (1, 2, 3, ...)"
CurrentPatient(resolution, triage, k) ==
    CHOOSE e \in Range(resolution.allocation_order) : e.allocation_order = k

\* every way steps 1-9 can go for the patient e
allocate_patient(H, e, t) ==
    { LET staff == StaffStep(bed.state, << "ED_Physician", "ED_Nurse" >>
                                         \o t.required_specialists, t.patient_name)
          equipment == EquipmentStep(staff.state, needs, t.patient_name)
      IN [ state |-> equipment.state,
           allocation |->
             [ patient_name |-> t.patient_name,
               allocation_order |-> e.allocation_order,
               bed_assigned |-> bed.bed_assigned,
               bed_department |-> bed.bed_department,
               staff_assigned |-> staff.staff_assigned,
               equipment_allocated |-> equipment.equipment_allocated,
               equipment_missing |-> equipment.missing ] ] :
      bed \in BedStep(H, t), needs \in EquipmentNeeds }

NoAllocations ==
    [ allocations |-> << >>, resources_exhausted |-> FALSE, waiting_patients |-> << >> ]

(* The workflow *)

InitFlow ==
    /\ HOSPITAL_STATE \in ArrivalInventories
    /\ call = [op |-> "none"]
    /\ result = [success |-> FALSE, message |-> "none"]
    /\ calls = 0
    /\ threads = << >>
    /\ score_args = Nothing
    /\ score_out = Nothing
    /\ stage = "triage"
    /\ input_batch \in BatchInputs
    /\ batch_triage = Nothing
    /\ conflict_resolution = Nothing
    /\ cursor = 1
    /\ batch_allocations = NoAllocations
    /\ batch_summary = Nothing

BatchTriage ==
    /\ stage = "triage"
    /\ batch_triage' = batch_triage_agent(input_batch)
    /\ stage' = "conflict"
    /\ UNCHANGED << HOSPITAL_STATE, storeVars, threads, scoreVars, input_batch,
                    conflict_resolution, cursor, batch_allocations, batch_summary >>

ResolveConflicts ==
    /\ stage = "conflict"
    /\ conflict_resolution' \in conflict_resolver(batch_triage)
    /\ stage' = "allocation"
    /\ UNCHANGED << HOSPITAL_STATE, storeVars, threads, scoreVars, input_batch,
                    batch_triage, cursor, batch_allocations, batch_summary >>

AllocatePatient ==
    /\ stage = "allocation"
    /\ cursor <= Len(conflict_resolution.allocation_order)
    /\ LET e == CurrentPatient(conflict_resolution, batch_triage, cursor)
           t == PatientDetails(batch_triage, e.patient_name)
       IN \E o \in allocate_patient(HOSPITAL_STATE, e, t) :
            /\ HOSPITAL_STATE' = o.state
            /\ batch_allocations' =
                 [ allocations |-> Append(batch_allocations.allocations, o.allocation),
                   resources_exhausted |->
                       \/ batch_allocations.resources_exhausted
                       \/ o.allocation.bed_assigned = None
                       \/ o.allocation.equipment_missing # {},
                   waiting_patients |->
                       IF o.allocation.bed_assigned = None
                       THEN Append(batch_allocations.waiting_patients, t.patient_name)
                       ELSE batch_allocations.waiting_patients ]
    /\ cursor' = cursor + 1
    /\ UNCHANGED << storeVars, threads, scoreVars, stage, input_batch, batch_triage,
                    conflict_resolution, batch_summary >>

\* an orchestrator that ends the batch as soon as a resource is exhausted
FinishAllocationOnExhaustion ==
    /\ stage = "allocation"
    /\ \/ cursor > Len(conflict_resolution.allocation_order)
       \/ batch_allocations.resources_exhausted
    /\ stage' = "summary"
    /\ UNCHANGED << HOSPITAL_STATE, storeVars, threads, scoreVars, input_batch,
                    batch_triage, conflict_resolution, cursor, batch_allocations,
                    batch_summary >>

FinishAllocation ==
    /\ stage = "allocation"
    /\ cursor > Len(conflict_resolution.allocation_order)
    /\ stage' = "summary"
    /\ UNCHANGED << HOSPITAL_STATE, storeVars, threads, scoreVars, input_batch,
                    batch_triage, conflict_resolution, cursor, batch_allocations,
                    batch_summary >>

(* Agent 4, BatchAdmissionSummarizer *)

\* a summarizer that hands the batch back to triage
SummarizeAndRetriage ==
    /\ stage = "summary"
    /\ batch_summary' =
         [ total_processed |-> Len(batch_allocations.allocations),
           waiting_count |-> Len(batch_allocations.waiting_patients),
           admitted_count |-> Len(batch_allocations.allocations)
                                - Len(batch_allocations.waiting_patients) ]
    /\ stage' = "triage"
    /\ UNCHANGED << HOSPITAL_STATE, storeVars, threads, scoreVars, input_batch,
                    batch_triage, conflict_resolution, cursor, batch_allocations >>

Summarize ==
    /\ stage = "summary"
    /\ batch_summary' =
         [ total_processed |-> Len(batch_allocations.allocations),
           waiting_count |-> Len(batch_allocations.waiting_patients),
           admitted_count |-> Len(batch_allocations.allocations)
                                - Len(batch_allocations.waiting_patients) ]
    /\ stage' = "done"
    /\ UNCHANGED << HOSPITAL_STATE, storeVars, threads, scoreVars, input_batch,
                    batch_triage, conflict_resolution, cursor, batch_allocations >>

NextFlow ==
    BatchTriage \/ ResolveConflicts \/ AllocatePatient \/ FinishAllocation \/ Summarize

SpecFlow == InitFlow /\ [][NextFlow]_vars

----------------------------------------------------------------------------
(* Claims about the store under any sequence of tool calls *)

BedPools == {"icu_beds", "ed_trauma_bays"}

\* C1: no double-booking.  A bed that is reserved or occupied keeps its record
\* (status and patient) across every step, and a bed record changes only by
\* becoming reserved for the patient of a reserve_bed call that returned success
\* for that bed: so no bed is ever handed from one patient to another.
C1_NoDoubleBooking ==
    [][ \A pool \in BedPools : \A b \in DOMAIN HOSPITAL_STATE[pool] :
          /\ HOSPITAL_STATE[pool][b].status # "available"
                => HOSPITAL_STATE'[pool][b] = HOSPITAL_STATE[pool][b]
          /\ HOSPITAL_STATE'[pool][b] # HOSPITAL_STATE[pool][b]
                => /\ call'.op = "reserve_bed"
                   /\ call'.bed_id = b
                   /\ result'.success
                   /\ HOSPITAL_STATE'[pool][b].status = "reserved"
                   /\ HOSPITAL_STATE'[pool][b].patient = call'.patient_name ]_vars

\* a reserve_bed call for a bed that is reserved for another patient was refused
C1_Witness ==
    /\ call.op = "reserve_bed"
    /\ ~result.success
    /\ \E pool \in BedPools :
          /\ call.bed_id \in DOMAIN HOSPITAL_STATE[pool]
          /\ HOSPITAL_STATE[pool][call.bed_id].status = "reserved"
          /\ HOSPITAL_STATE[pool][call.bed_id].patient # call.patient_name

\* C3: every pool's available count stays within 0..total, whatever quantities
\* (zero and negative ones included) reserve_equipment is called with.
C3_PoolBounds ==
    \A t \in EquipmentTypes :
        /\ HOSPITAL_STATE.equipment[t].available >= 0
        /\ HOSPITAL_STATE.equipment[t].available <= HOSPITAL_STATE.equipment[t].total

----------------------------------------------------------------------------
(* Claims about concurrent callers *)

Succeeded(b) ==
    {c \in Callers : /\ threads[c].pc = "returned"
                     /\ threads[c].bed_id = b
                     /\ threads[c].result.success}

Attempting(b) == {c \in Callers : threads[c].pc # "idle" /\ threads[c].bed_id = b}

BedRecord(H, b) ==
    IF b \in DOMAIN H.icu_beds THEN H.icu_beds[b] ELSE H.ed_trauma_bays[b]

\* C2: of the callers that attempt reserve_bed on the same available bed, exactly
\* one is told success, and the bed is recorded for that caller's patient.
C2_ExactlyOneSuccess ==
    \A b \in IcuBedIds \cup TraumaBayIds :
        /\ Cardinality(Succeeded(b)) <= 1
        /\ ( /\ BedRecord(InitialHospitalState, b).status = "available"
             /\ Attempting(b) # {}
             /\ \A c \in Attempting(b) : threads[c].pc = "returned" )
           => \E c \in Attempting(b) :
                 /\ Succeeded(b) = {c}
                 /\ BedRecord(HOSPITAL_STATE, b).patient = threads[c].patient_name

----------------------------------------------------------------------------
(* Claims about calculate_clinical_score *)

Scored == score_out # Nothing

\* the tier the thresholds 12, 8 and 5 give a score
TierOfScore(score) ==
    IF score >= 12 THEN "CRITICAL"
    ELSE IF score >= 8 THEN "HIGH"
    ELSE IF score >= 5 THEN "MODERATE"
    ELSE "LOW"

\* C8: the severity returned is one of the four tiers and is the tier of the total
\* score: >= 12 CRITICAL, 8..11 HIGH, 5..7 MODERATE, < 5 LOW.  The tier being
\* this function of the score for every input, two inputs with the same score
\* have the same tier.
C8_TierFromScore ==
    Scored =>
        /\ score_out.severity \in {"CRITICAL", "HIGH", "MODERATE", "LOW"}
        /\ score_out.severity = TierOfScore(score_out.clinical_score)

\* a score on a tier boundary has been computed
C8_Witness ==
    /\ Scored
    /\ score_out.clinical_score = 12
    /\ score_out.severity = "CRITICAL"

\* the oxygen saturation the function uses (98 when the key is missing)
O2Of(args) == Get(args.vital_signs, "oxygen_saturation", 98)

\* vital_signs with oxygen_saturation set to o2
WithOxygen(vital_signs, o2) ==
    [ k \in DOMAIN vital_signs \cup {"oxygen_saturation"} |->
        IF k = "oxygen_saturation" THEN o2 ELSE vital_signs[k] ]

\* C9: with age, heart rate, blood pressure and symptoms fixed, a lower oxygen
\* saturation never gives a lower score.
C9_OxygenMonotone ==
    Scored =>
        \A o2 \in OxygenInputs :
            o2 <= O2Of(score_args)
                => calculate_clinical_score(score_args.age,
                                            WithOxygen(score_args.vital_signs, o2),
                                            score_args.symptoms).clinical_score
                     >= score_out.clinical_score

\* a score was computed for a saturation in the middle band, which has lower and
\* higher bands on either side
C9_Witness ==
    /\ Scored
    /\ O2Of(score_args) = 91
    /\ score_out.clinical_score >= 3

ScoreAtAge(age) ==
    calculate_clinical_score(age, score_args.vital_signs, score_args.symptoms).clinical_score

\* C10 as claimed: from every age at or below 65 (infants included) to every age
\* above 65 the score rises by at least 2.
C10_AgePast65_AnyAge ==
    (Scored /\ score_args.age <= 65) =>
        \A older \in {a \in AgeInputs : a > 65} :
            ScoreAtAge(older) >= score_out.clinical_score + 2

\* C10 amended: from every age from 1 to 65 to every age above 65 the score
\* rises by at least 2.
C10_AgePast65 ==
    (Scored /\ score_args.age >= 1 /\ score_args.age <= 65) =>
        \A older \in {a \in AgeInputs : a > 65} :
            ScoreAtAge(older) >= score_out.clinical_score + 2

\* a score was computed for an age of exactly 65, the last one below the band
C10_Witness ==
    /\ Scored
    /\ score_args.age = 65
    /\ ScoreAtAge(66) = score_out.clinical_score + 2

----------------------------------------------------------------------------
(* Claims about the admission workflow *)

Resolved == stage \in {"allocation", "summary", "done"}

Ranked == Range(conflict_resolution.allocation_order)

Processed ==
    { batch_allocations.allocations[i].patient_name :
        i \in DOMAIN batch_allocations.allocations }

\* the unserved patient of the smallest allocation_order
IsHead(e) ==
    /\ e \in Ranked
    /\ e.patient_name \notin Processed
    /\ \A f \in Ranked : f.allocation_order < e.allocation_order
                             => f.patient_name \in Processed

SubmittedAt(name) == CHOOSE i \in DOMAIN input_batch : input_batch[i].name = name

Wants(name) == PatientDetails(batch_triage, name).recommended_department

AvailableIn(H, department) == Range(check_bed_availability(H, department).available_beds)

C5_PermutationDeterministic ==
    Resolved =>
        /\ Len(conflict_resolution.allocation_order) = Len(input_batch)
        /\ { e.patient_name : e \in Ranked } = { p.name : p \in Range(input_batch) }
        /\ \A k \in DOMAIN conflict_resolution.allocation_order :
              conflict_resolution.allocation_order[k].allocation_order = k
        /\ \A again \in conflict_resolver(batch_triage) :
              again.allocation_order = conflict_resolution.allocation_order

\* the ranking of section 4.3: a comes strictly before b
RankedBefore(a, b) ==
    \/ Criticality(a.priority_level) > Criticality(b.priority_level)
    \/ /\ Criticality(a.priority_level) = Criticality(b.priority_level)
       /\ a.survival_probability < b.survival_probability
    \/ /\ Criticality(a.priority_level) = Criticality(b.priority_level)
       /\ a.survival_probability = b.survival_probability
       /\ a.max_wait_time_minutes < b.max_wait_time_minutes
    \/ /\ Criticality(a.priority_level) = Criticality(b.priority_level)
       /\ a.survival_probability = b.survival_probability
       /\ a.max_wait_time_minutes = b.max_wait_time_minutes
       /\ SubmittedAt(a.patient_name) < SubmittedAt(b.patient_name)

\* C6: the ranking of a batch of several patients lists them by severity tier,
\* most severe first, then by lower survival probability, then by shorter
\* max_wait_time_minutes, then by submission order; so of any two patients the
\* one listed first comes strictly before the other in that ranking.
C6_RankingKeys ==
    (Resolved /\ Len(input_batch) > 1) =>
        \A e, f \in Ranked :
            e.allocation_order < f.allocation_order =>
                RankedBefore(PatientDetails(batch_triage, e.patient_name),
                             PatientDetails(batch_triage, f.patient_name))

BatchNames == { p.name : p \in Range(input_batch) }

\* the ICU beds that were available when the batch arrived
IcuBedsAtArrival ==
    { b \in IcuBedIds : \/ BedRecord(HOSPITAL_STATE, b).status = "available"
                         \/ BedRecord(HOSPITAL_STATE, b).patient \in BatchNames }

AllocationOf(name) ==
    batch_allocations.allocations[
        CHOOSE i \in DOMAIN batch_allocations.allocations :
            batch_allocations.allocations[i].patient_name = name]

\* P1 = Maria (80, oxygen 85, unresponsive) and P2 = John (30, oxygen 97) were
\* submitted together, both for the ICU, when the ICU had one bed left
TwoForOneIcuBed ==
    /\ Len(input_batch) = 2
    /\ BatchNames = {"Maria", "John"}
    /\ Cardinality(IcuBedsAtArrival) = 1

ScoresAsExpected ==
    /\ PatientDetails(batch_triage, "Maria").clinical_score >= 12
    /\ PatientDetails(batch_triage, "Maria").priority_level = "CRITICAL"
    /\ \A p \in Range(input_batch) :
          p.name = "Maria" =>
            calculate_clinical_score(p.age, p.vital_signs, p.symptoms).severity = "CRITICAL"
    /\ PatientDetails(batch_triage, "John").clinical_score < 5

IcuBedGoesToMaria ==
    /\ AllocationOf("Maria").bed_department = "ICU"
    /\ \A b \in IcuBedsAtArrival : BedRecord(HOSPITAL_STATE, b).patient = "Maria"
    /\ AllocationOf("John").bed_department # "ICU"
    /\ AvailableIn(HOSPITAL_STATE, "ICU") = {}

JohnWaits ==
    /\ AllocationOf("John").bed_assigned = None
    /\ "John" \in Range(batch_allocations.waiting_patients)
    /\ batch_allocations.resources_exhausted

NeededVentilator(a) ==
    \/ "ventilators" \in Range(a.equipment_allocated)
    \/ "ventilators" \in a.equipment_missing

\* the ventilators that were available when the batch arrived
VentilatorsAtArrival ==
    HOSPITAL_STATE.equipment["ventilators"].available
        + Cardinality({ i \in DOMAIN batch_allocations.allocations :
                          "ventilators" \in
                              Range(batch_allocations.allocations[i].equipment_allocated) })

HoldsBed(H, name, bed_id) ==
    /\ bed_id \in IcuBedIds \cup TraumaBayIds
    /\ BedRecord(H, bed_id).status = "reserved"
    /\ BedRecord(H, bed_id).patient = name

\* C12: partial allocation.  In every state of the workflow a reserve_equipment
\* call that fails for lack of capacity returns the inventory as it was, with
\* every bed reservation and staff assignment already made; and when a batch of
\* two patients who each need one ventilator arrives with one ventilator
\* available, the patient ranked 1 gets it, the patient ranked 2 is recorded
\* with ventilators missing, and a bed reserved for the patient ranked 2 is
\* still reserved for that patient.
C12_PartialAllocation ==
    /\ \A equipment_type \in EquipmentTypes, name \in BatchNames, quantity \in 1 .. MaxQty :
          LET r == reserve_equipment(HOSPITAL_STATE, equipment_type, name, quantity) IN
          ~r.result.success =>
              /\ r.result.message = "insufficient"
              /\ r.state = HOSPITAL_STATE
    /\ (/\ stage \in {"summary", "done"}
        /\ Len(batch_allocations.allocations) = 2
        /\ VentilatorsAtArrival = 1
        /\ \A i \in 1 .. 2 : NeededVentilator(batch_allocations.allocations[i])) =>
          LET first == batch_allocations.allocations[1]
              second == batch_allocations.allocations[2]
          IN /\ first.equipment_allocated = << "ventilators" >>
             /\ second.equipment_missing = {"ventilators"}
             /\ second.equipment_allocated = << >>
             /\ HOSPITAL_STATE.equipment["ventilators"].available = 0
             /\ second.bed_assigned \in IcuBedIds \cup TraumaBayIds =>
                   HoldsBed(HOSPITAL_STATE, second.patient_name, second.bed_assigned)
             /\ batch_allocations.resources_exhausted

\* two patients who both needed a ventilator were processed with one ventilator
\* available: the second has none, keeps a reserved ICU bed and assigned staff
C12_Witness ==
    /\ stage = "done"
    /\ Len(batch_allocations.allocations) = 2
    /\ VentilatorsAtArrival = 1
    /\ batch_allocations.allocations[1].equipment_allocated = << "ventilators" >>
    /\ batch_allocations.allocations[2].equipment_missing = {"ventilators"}
    /\ batch_allocations.allocations[2].staff_assigned # << >>
    /\ HoldsBed(HOSPITAL_STATE, batch_allocations.allocations[2].patient_name,
                batch_allocations.allocations[2].bed_assigned)
    /\ batch_allocations.waiting_patients = << >>

----------------------------------------------------------------------------
(* Claims about the detection and query tools *)

SeverityRank(severity) ==
    CASE severity = "CRITICAL" -> 3
      [] severity = "HIGH" -> 2
      [] severity = "MODERATE" -> 1
      [] OTHER -> 0

\* the severities of the rules of section 4.2 that trigger in the inventory H
TriggeredSeverities(H) ==
    LET icu_taken == Cardinality({b \in IcuBedIds : H.icu_beds[b].status # "available"})
        trauma_free == Cardinality({b \in TraumaBayIds :
                                      H.ed_trauma_bays[b].status = "available"})
        ventilators == H.equipment["ventilators"].available
    IN (IF icu_taken * 10 >= Cardinality(IcuBedIds) * 9 THEN {"CRITICAL"}
        ELSE IF icu_taken * 4 >= Cardinality(IcuBedIds) * 3 THEN {"HIGH"} ELSE {})
       \cup (IF trauma_free = 0 THEN {"HIGH"} ELSE {})
       \cup (IF \E p \in Range(H.staff_available.ed_physicians) : p.load >= 5
             THEN {"MODERATE"} ELSE {})
       \cup (IF ventilators = 0 THEN {"CRITICAL"}
             ELSE IF ventilators = 1 THEN {"HIGH"} ELSE {})

CycleEdges ==
    { << "available", "reserved" >>, << "reserved", "occupied" >>,
      << "occupied", "available" >> }

\* C14: every change of a bed's status by a store operation is an edge of the
\* cycle available -> reserved -> occupied -> available, never available ->
\* occupied, and a change made by reserve_bed is available -> reserved.
C14_BedLifeCycle ==
    [][ \A b \in IcuBedIds \cup TraumaBayIds :
          LET old == BedRecord(HOSPITAL_STATE, b).status
              new == BedRecord(HOSPITAL_STATE', b).status
          IN old # new =>
               /\ << old, new >> \in CycleEdges
               /\ << old, new >> # << "available", "occupied" >>
               /\ call'.op = "reserve_bed"
               /\ call'.bed_id = b
               /\ old = "available"
               /\ new = "reserved"
      ]_vars

\* reserve_bed has just moved ICU-3 from available to reserved, after another
\* store operation
C14_Witness ==
    /\ calls >= 2
    /\ call.op = "reserve_bed"
    /\ call.bed_id = "ICU-3"
    /\ result.success
    /\ BedRecord(HOSPITAL_STATE, "ICU-3").status = "reserved"

----------------------------------------------------------------------------
(* Claims about the progress of the workflow *)

\* the allocation results so far are those of the first patients of the
\* allocation order, one each and in that order, and the patients without a bed
\* are the waiting ones
ServedInOrder ==
    /\ Len(batch_allocations.allocations) = cursor - 1
    /\ cursor - 1 <= Len(conflict_resolution.allocation_order)
    /\ \A k \in DOMAIN batch_allocations.allocations :
          /\ batch_allocations.allocations[k].patient_name
                = conflict_resolution.allocation_order[k].patient_name
          /\ batch_allocations.allocations[k].allocation_order = k
          /\ (batch_allocations.allocations[k].bed_assigned = None)
                <=> (batch_allocations.allocations[k].patient_name
                       \in Range(batch_allocations.waiting_patients))

EveryPatientServed ==
    /\ Len(batch_allocations.allocations) = Len(conflict_resolution.allocation_order)
    /\ \A e \in Ranked :
          Cardinality({ k \in DOMAIN batch_allocations.allocations :
                          batch_allocations.allocations[k].patient_name = e.patient_name }) = 1

\* the current patient can be processed, whatever the inventory has left
CurrentPatientHasOutcome ==
    LET e == CHOOSE f \in Ranked : f.allocation_order = cursor IN
    allocate_patient(HOSPITAL_STATE, e, PatientDetails(batch_triage, e.patient_name)) # {}

StageEdges ==
    { << "triage", "conflict" >>, << "conflict", "allocation" >>,
      << "allocation", "summary" >>, << "summary", "done" >> }

\* C17: in one round the stages run in the order triage, conflict resolution,
\* resource allocation, summary.  The stage only ever moves to the stage that
\* follows it; each output is written by its own stage only, after the output of
\* the stage before it exists, and triage, ranking and summary write theirs in
\* the very step that ends the stage, so once; an output exists exactly when its
\* stage has ended; no stage is entered a second time.
C17_StageOrder ==
    /\ [][ /\ stage' # stage => << stage, stage' >> \in StageEdges
           /\ stage' = stage => stage = "allocation"
           /\ batch_triage' # batch_triage =>
                 (stage = "triage" /\ stage' = "conflict" /\ batch_triage = Nothing)
           /\ conflict_resolution' # conflict_resolution =>
                 /\ stage = "conflict" /\ stage' = "allocation"
                 /\ conflict_resolution = Nothing
                 /\ batch_triage # Nothing
           /\ (batch_allocations' # batch_allocations \/ HOSPITAL_STATE' # HOSPITAL_STATE) =>
                 /\ stage = "allocation" /\ stage' = "allocation"
                 /\ conflict_resolution # Nothing
           /\ batch_summary' # batch_summary =>
                 /\ stage = "summary" /\ stage' = "done"
                 /\ batch_summary = Nothing
                 /\ EveryPatientServed ]_vars
    /\ [](/\ (batch_triage # Nothing) <=> (stage # "triage")
          /\ (conflict_resolution # Nothing) <=> (stage \notin {"triage", "conflict"})
          /\ (batch_summary # Nothing) <=> (stage = "done"))

\* a round over two patients ran through all four stages
C17_Witness ==
    /\ stage = "done"
    /\ Len(input_batch) = 2
    /\ batch_triage.total_patients = 2
    /\ Len(conflict_resolution.allocation_order) = 2
    /\ Len(batch_allocations.allocations) = 2
    /\ batch_summary.total_processed = 2

ReadOnlyTools ==
    { "get_hospital_state", "check_bed_availability", "get_available_staff",
      "check_equipment", "detect_resource_conflicts" }

\* the agents of the triage, conflict-resolution and hospital-query stages
ReadingAgents ==
    { "BatchTriageCoordinator", "ConflictResolutionCoordinator", "HospitalQueryAgent" }

\* C18: a call of get_hospital_state, check_bed_availability,
\* get_available_staff, check_equipment or detect_resource_conflicts leaves the
\* whole inventory as it was; the triage, conflict-resolution and hospital-query
\* agents are given no tool that writes to the inventory (only these tools and
\* the scoring function), so every change of the inventory is made by a call of
\* the resource-allocation agent.
C18_ReadOnlyTools ==
    /\ [](\A agent \in ReadingAgents :
            Tools(agent) \subseteq ReadOnlyTools \cup {"calculate_clinical_score"})
    /\ [][ calls' = calls + 1 =>
             /\ call'.op \in Tools(call'.agent)
             /\ call'.op \in ReadOnlyTools => HOSPITAL_STATE' = HOSPITAL_STATE
             /\ call'.agent \in ReadingAgents => HOSPITAL_STATE' = HOSPITAL_STATE
             /\ HOSPITAL_STATE' # HOSPITAL_STATE =>
                   call'.agent = "BatchResourceOrchestrator" ]_vars

\* the conflict resolver looked at the ICU after a bed had been reserved there
C18_Witness ==
    /\ call.op = "check_bed_availability"
    /\ call.agent = "ConflictResolutionCoordinator"
    /\ call.department = "ICU"
    /\ result.count = 1
    /\ result.reserved_beds # << >>
    /\ HOSPITAL_STATE # InitialHospitalState

\* C19: a result of get_hospital_state is a point-in-time snapshot.  What its
\* holder reads in it, beds, staff and equipment alike, is what the query
\* computes from the one inventory it was returned from, also after reserve_bed,
\* reserve_equipment or assign_staff have been applied.
C19_SnapshotIsStable ==
    Held =>
        ReadResult(result, HOSPITAL_STATE)
            = ReadResult(get_hospital_state(call.store, call.query_filter), call.store)

\* C20: a pool's available count only decreases via reservation.  Whatever the
\* equipment type and the integer quantity, no reserve_equipment call (nor any
\* other store operation) leaves a pool's available count larger than it was.
C20_AvailableNeverRises ==
    [][ \A equipment_type \in EquipmentTypes :
          HOSPITAL_STATE'.equipment[equipment_type].available
              <= HOSPITAL_STATE.equipment[equipment_type].available ]_vars

----------------------------------------------------------------------------
(* Claims about release, availability listings and staff *)

\* the inventories one call of a writing tool of customTools.py can leave
AfterOneWrite(H) ==
    { reserve_bed(H, bed_id, patient_name, priority).state :
        bed_id \in BedIdInputs, patient_name \in PatientNames, priority \in PriorityInputs }
    \cup { reserve_equipment(H, equipment_type, patient_name, quantity).state :
             equipment_type \in EquipmentInputs, patient_name \in PatientNames,
             quantity \in Quantities }
    \cup { assign_staff(H, s[1], s[2], patient_name).state :
             s \in StaffInputs, patient_name \in PatientNames }

\* C21: the store offers release operations.  For every bed that is reserved or
\* occupied some store operation returns it to available with no patient, and
\* for every pool that has units in use some store operation called with a
\* positive quantity raises its available count, so that a reserved resource
\* can become available again.
C21_ReleaseOffered ==
    /\ \A b \in IcuBedIds \cup TraumaBayIds :
          BedRecord(HOSPITAL_STATE, b).status \in {"reserved", "occupied"} =>
              \E H \in AfterOneWrite(HOSPITAL_STATE) :
                  /\ BedRecord(H, b).status = "available"
                  /\ BedRecord(H, b).patient = None
    /\ \A t \in EquipmentTypes :
          HOSPITAL_STATE.equipment[t].available < HOSPITAL_STATE.equipment[t].total =>
              \E patient_name \in PatientNames, quantity \in 1 .. MaxQty :
                  reserve_equipment(HOSPITAL_STATE, t, patient_name, quantity)
                      .state.equipment[t].available
                    > HOSPITAL_STATE.equipment[t].available

BedDepartments == {"ICU", "ED_Trauma"}

\* C22: a bed that check_bed_availability lists as available for ICU or
\* ED_Trauma is reserved successfully by a reserve_bed call that follows
\* immediately; with that success the department's count drops by exactly one
\* and the bed moves from available_beds to reserved_beds; and a bed listed in
\* reserved_beds stays there and out of available_beds in every later listing.
C22_ListedBedIsReservable ==
    [][ /\ (/\ call.op = "check_bed_availability"
            /\ call.department \in BedDepartments
            /\ calls' = calls + 1
            /\ call'.op = "reserve_bed"
            /\ call'.bed_id \in Range(result.available_beds)) =>
              LET later == check_bed_availability(HOSPITAL_STATE', call.department) IN
              /\ result'.success
              /\ result'.department = call.department
              /\ later.count = result.count - 1
              /\ call'.bed_id \notin Range(later.available_beds)
              /\ call'.bed_id \in Range(later.reserved_beds)
              /\ Range(later.available_beds) = Range(result.available_beds) \ {call'.bed_id}
        /\ \A department \in BedDepartments :
              \A b \in Range(check_bed_availability(HOSPITAL_STATE, department).reserved_beds) :
                  LET later == check_bed_availability(HOSPITAL_STATE', department) IN
                  /\ b \in Range(later.reserved_beds)
                  /\ b \notin Range(later.available_beds)
      ]_vars

\* a listing of the ICU made after ICU-3 was reserved: one bed left, ICU-3
\* among the reserved ones
C22_Witness ==
    /\ call.op = "check_bed_availability"
    /\ call.department = "ICU"
    /\ calls >= 2
    /\ result.available_beds = << "ICU-4" >>
    /\ result.count = 1
    /\ result.reserved_beds = << "ICU-3" >>

\* C23: a reserve_equipment call returns failure and leaves the whole inventory
\* as it was when the equipment type is unknown or the quantity exceeds the
\* pool's available count; a call that succeeds lowers that pool's available
\* count by exactly the quantity and changes neither its total nor any other
\* part of the inventory.
C23_ReserveEquipmentEffect ==
    [][ (calls' = calls + 1 /\ call'.op = "reserve_equipment") =>
          LET t == call'.equipment_type
              known == t \in EquipmentTypes
          IN /\ (~known \/ call'.quantity > HOSPITAL_STATE.equipment[t].available) =>
                   /\ ~result'.success
                   /\ HOSPITAL_STATE' = HOSPITAL_STATE
             /\ ~known => result'.message = "unknown_type"
             /\ result'.success =>
                   /\ known
                   /\ HOSPITAL_STATE' =
                        [HOSPITAL_STATE EXCEPT !.equipment[t].available = @ - call'.quantity]
                   /\ result'.remaining_available
                        = HOSPITAL_STATE.equipment[t].available - call'.quantity
      ]_vars

\* a call for two ventilators was refused with one left, after a call that took
\* one
C23_Witness ==
    /\ call.op = "reserve_equipment"
    /\ call.equipment_type = "ventilators"
    /\ call.quantity = 2
    /\ ~result.success
    /\ result.message = "insufficient"
    /\ result.available = 1
    /\ HOSPITAL_STATE.equipment["ventilators"].available = 1

\* C24: in every reachable state get_available_staff lists all physicians (all
\* nurses) in ascending order of load, with least_busy a member of minimum load;
\* for cardiologists and trauma surgeons it lists exactly the members whose
\* availability flag is set, in roster order, with least_busy empty when there
\* is none; an answer returned by a call is the answer for the store as it is;
\* and a specialist that assign_staff has assigned is in no later listing.
LoadRanked == {"ED_Physician", "ED_Nurse"}
FlagRanked == {"Cardiologist", "Trauma_Surgeon"}

Members(staff) == { staff[i] : i \in DOMAIN staff }

C24_StaffListing ==
    /\ \A specialty \in LoadRanked :
          LET staff_list == HOSPITAL_STATE.staff_available[specialty_map(specialty)]
              r == get_available_staff(HOSPITAL_STATE, specialty)
          IN /\ Len(r.available_staff) = Len(staff_list)
             /\ Members(r.available_staff) = Members(staff_list)
             /\ r.total_count = Len(staff_list)
             /\ \A i, j \in DOMAIN r.available_staff :
                   i < j => r.available_staff[i].load <= r.available_staff[j].load
             /\ r.least_busy \in Members(staff_list)
             /\ \A m \in Members(staff_list) : r.least_busy.load <= m.load
    /\ \A specialty \in FlagRanked :
          LET staff_list == HOSPITAL_STATE.staff_available[specialty_map(specialty)]
              r == get_available_staff(HOSPITAL_STATE, specialty)
          IN /\ Members(r.available_staff) = { m \in Members(staff_list) : m.available }
             /\ r.total_count = Cardinality({ i \in DOMAIN staff_list : staff_list[i].available })
             /\ (r.available_staff = << >>) <=> (\A m \in Members(staff_list) : ~m.available)
             /\ IF r.available_staff = << >>
                THEN r.least_busy = Nothing
                ELSE r.least_busy \in Members(staff_list) /\ r.least_busy.available
    /\ call.op = "get_available_staff" =>
          result = get_available_staff(HOSPITAL_STATE, call.specialty)

C24_AssignedSpecialistWithdrawn ==
    [][ /\ (calls' = calls + 1 /\ call'.op = "assign_staff" /\ result'.success
              /\ call'.specialty \in FlagRanked) =>
             \A m \in Members(get_available_staff(HOSPITAL_STATE', call'.specialty).available_staff) :
                 m.name # call'.staff_name
        /\ \A specialty \in FlagRanked :
             Members(get_available_staff(HOSPITAL_STATE', specialty).available_staff)
               \subseteq Members(get_available_staff(HOSPITAL_STATE, specialty).available_staff)
      ]_vars

C24_AvailableStaff == []C24_StaffListing /\ C24_AssignedSpecialistWithdrawn

\* the cardiologist was assigned, and the listing asked for afterwards is empty
C24_Witness ==
    /\ calls >= 2
    /\ call.op = "get_available_staff"
    /\ call.specialty = "Cardiologist"
    /\ result.available_staff = << >>
    /\ result.least_busy = Nothing
    /\ ~HOSPITAL_STATE.staff_available.cardiologists[1].available

StaffKeys == {"ed_physicians", "ed_nurses", "cardiologists", "trauma_surgeons"}

ChangedStaff(H, H2) ==
    { ki \in { <<key, i>> : key \in StaffKeys, i \in 1..3 } :
        /\ ki[2] \in DOMAIN H.staff_available[ki[1]]
        /\ H2.staff_available[ki[1]][ki[2]] # H.staff_available[ki[1]][ki[2]] }

AssignStaffStep == calls' = calls + 1 /\ call'.op = "assign_staff"

\* what holds of every assign_staff call: nothing but staff records is written,
\* at most one of them, and a failed call writes nothing
AssignStaffFrame ==
    [][ AssignStaffStep =>
          /\ HOSPITAL_STATE'.icu_beds = HOSPITAL_STATE.icu_beds
          /\ HOSPITAL_STATE'.ed_trauma_bays = HOSPITAL_STATE.ed_trauma_bays
          /\ HOSPITAL_STATE'.ed_treatment_rooms = HOSPITAL_STATE.ed_treatment_rooms
          /\ HOSPITAL_STATE'.equipment = HOSPITAL_STATE.equipment
          /\ Cardinality(ChangedStaff(HOSPITAL_STATE, HOSPITAL_STATE')) <= 1
          /\ \A key \in StaffKeys :
                Len(HOSPITAL_STATE'.staff_available[key]) = Len(HOSPITAL_STATE.staff_available[key])
          /\ \A ki \in ChangedStaff(HOSPITAL_STATE, HOSPITAL_STATE') :
                LET before == HOSPITAL_STATE.staff_available[ki[1]][ki[2]]
                    after == HOSPITAL_STATE'.staff_available[ki[1]][ki[2]]
                IN /\ result'.success
                   /\ before.name = call'.staff_name
                   /\ ki[1] = specialty_map(call'.specialty)
                   /\ IF ki[1] \in {"ed_physicians", "ed_nurses"}
                      THEN after = [before EXCEPT !.load = @ + 1]
                      ELSE after = [before EXCEPT !.available = FALSE]
          /\ ( \/ specialty_map(call'.specialty) = None
               \/ find_staff(HOSPITAL_STATE.staff_available[specialty_map(call'.specialty)],
                             call'.staff_name) = 0 )
               => ~result'.success /\ HOSPITAL_STATE' = HOSPITAL_STATE
      ]_vars

SuccessChangesOneRecord ==
    [][ (AssignStaffStep /\ result'.success) =>
          Cardinality(ChangedStaff(HOSPITAL_STATE, HOSPITAL_STATE')) = 1
      ]_vars

\* C25: a successful assign_staff changes exactly one staff record, by raising a
\* physician's or nurse's load by exactly 1 or by clearing a specialist's
\* availability flag, and leaves every other staff record, every bed and every
\* equipment pool unchanged; assign_staff with an unknown specialty or an
\* unknown staff name returns failure and changes nothing.
C25_AssignStaffEffect == AssignStaffFrame /\ SuccessChangesOneRecord

\* C26: over any sequence of assign_staff calls a cardiologist or trauma surgeon
\* is successfully assigned to at most one patient: assign_staff on a
\* specialist whose availability flag is already cleared does not return
\* success.
C26_SpecialistAssignedOnce ==
    [][ (AssignStaffStep /\ call'.specialty \in FlagRanked) =>
          LET staff_list == HOSPITAL_STATE.staff_available[specialty_map(call'.specialty)]
              i == find_staff(staff_list, call'.staff_name)
          IN (i # 0 /\ ~staff_list[i].available) => ~result'.success
      ]_vars

\* Dr. Patel, already assigned to one patient, was assigned to the other
SpecialistAssignedTwice ==
    /\ calls >= 2
    /\ call.op = "assign_staff"
    /\ call.staff_name = "Dr. Patel"
    /\ call.specialty = "Cardiologist"
    /\ call.patient_name = "John"
    /\ result.success

----------------------------------------------------------------------------
(* Claims about concurrent reserve_equipment *)

\* the callers whose reserve_equipment on pool t returned success
Granted(t) ==
    { c \in Callers : /\ threads[c].pc = "returned"
                      /\ threads[c].equipment_type = t
                      /\ threads[c].result.success }

RECURSIVE SumQuantity(_)
SumQuantity(cs) ==
    IF cs = {} THEN 0
    ELSE LET c == CHOOSE x \in cs : TRUE
         IN threads[c].quantity + SumQuantity(cs \ {c})

Quiescent == \A c \in Callers : threads[c].pc \in {"idle", "returned"}

AvailableBefore(t) == InitialHospitalState.equipment[t].available

GrantedWithinAvailable ==
    \A t \in EquipmentTypes : SumQuantity(Granted(t)) <= AvailableBefore(t)

NoDecrementLost ==
    Quiescent =>
      \A t \in EquipmentTypes :
          HOSPITAL_STATE.equipment[t].available
            = AvailableBefore(t) - SumQuantity(Granted(t))

AvailableNotNegative ==
    \A t \in EquipmentTypes : HOSPITAL_STATE.equipment[t].available >= 0

\* C27: when several callers run reserve_equipment concurrently on the same
\* pool, the quantity granted by the successful calls together never exceeds
\* the available count the pool had before them, every successful decrement
\* shows in the pool once the callers have returned, and available never
\* becomes negative.
C27_ConcurrentReserveEquipment ==
    /\ GrantedWithinAvailable
    /\ NoDecrementLost
    /\ AvailableNotNegative

----------------------------------------------------------------------------
(* Claims about the ED treatment rooms *)

\* names a caller might give a treatment room: none is a key of a bed dict
TreatmentRoomIds == {"treatment_room", "ED_Treatment", "TR-1"}

RoutedToTreatment ==
    { i \in DOMAIN batch_allocations.allocations :
        batch_allocations.allocations[i].bed_department = "ED_Treatment" }

\* C28: no tool operation changes the ED treatment-room pool.  In every state of
\* the workflow its counts are the initial available 5, total 15, occupied 10,
\* however many patients have been routed to ED_Treatment;
\* check_bed_availability('ED_Treatment') reports count 5 of 15 with no bed
\* ids; no call of a writing tool changes the pool; and reserve_bed on a name
\* for a treatment room fails as not found and changes nothing.
C28_TreatmentRoomsUntouched ==
    /\ HOSPITAL_STATE.ed_treatment_rooms = [available |-> 5, total |-> 15, occupied |-> 10]
    /\ LET r == check_bed_availability(HOSPITAL_STATE, "ED_Treatment") IN
          /\ r.count = 5
          /\ r.total_beds = 15
          /\ r.available_beds = << >>
    /\ \A H \in AfterOneWrite(HOSPITAL_STATE) :
          H.ed_treatment_rooms = HOSPITAL_STATE.ed_treatment_rooms
    /\ \A bed_id \in TreatmentRoomIds, patient_name \in PatientNames :
          LET r == reserve_bed(HOSPITAL_STATE, bed_id, patient_name, "CRITICAL") IN
          /\ ~r.result.success
          /\ r.result.message = "not_found"
          /\ r.state = HOSPITAL_STATE

\* both patients of a batch were routed to ED_Treatment
C28_Witness ==
    /\ stage \in {"summary", "done"}
    /\ Cardinality(RoutedToTreatment) = 2
    /\ check_bed_availability(HOSPITAL_STATE, "ED_Treatment").count = 5

----------------------------------------------------------------------------
(* Claims about the survival probability *)

\* the largest score the inputs can reach: every band at its highest and every
\* symptom a four-point keyword
MaxScore ==
    age_points(80) + heart_rate_points(140) + blood_pressure_points(85)
    + oxygen_points(85) + MaxSymptoms * 4

TierRank(severity) ==
    CASE severity = "LOW" -> 0
      [] severity = "MODERATE" -> 1
      [] severity = "HIGH" -> 2
      [] severity = "CRITICAL" -> 3

\* C29: the survival probability returned lies in 40..95 and is that of the
\* score returned; against every score from 0 up to the largest the inputs
\* reach, a lower score never has a lower survival probability and a higher
\* score never a higher one, across the tier boundaries at 5, 8 and 12 too; and
\* a score in a more severe tier never has a higher survival probability.
C29_SurvivalNonIncreasing ==
    Scored =>
        /\ score_out.clinical_score \in 0 .. MaxScore
        /\ score_out.survival_probability \in 40 .. 95
        /\ score_out.survival_probability
             = severity_of(score_out.clinical_score).survival_prob
        /\ \A other \in 0 .. MaxScore :
              LET o == severity_of(other) IN
              /\ other <= score_out.clinical_score
                   => o.survival_prob >= score_out.survival_probability
              /\ other >= score_out.clinical_score
                   => o.survival_prob <= score_out.survival_probability
              /\ TierRank(o.severity) > TierRank(score_out.severity)
                   => o.survival_prob <= score_out.survival_probability

\* a score of 8 was computed, the first of the HIGH tier, whose survival
\* probability is below that of 7, the last of the MODERATE tier
C29_Witness ==
    /\ Scored
    /\ score_out.clinical_score = 8
    /\ score_out.severity = "HIGH"
    /\ score_out.survival_probability = 76
    /\ severity_of(7).survival_prob = 86

====
